---- MODULE Spec2Model ----
(***************************************************************************)
(* Index lifecycle manager of georef-ar-api (service/management/indexer.py) *)
(* as a state machine: one process run of run_index over the catalog, each  *)
(* create_or_reindex call split at its I/O calls (fetch, engine, backup).   *)
(*                                                                          *)
(* Strings whose characters the code inspects (index names, versions,       *)
(* synonym files) are sequences of one-character strings.                   *)
(***************************************************************************)
EXTENDS Integers, Sequences, FiniteSets, TLC

\* ------------------------------------------------------------------ bounds
\* number of create_or_reindex calls begun in one behaviour
MaxCalls == 2
\* dataset timestamps range over 0..MaxTs
MaxTs == 1
\* number of engine / file-system calls that raise in one behaviour
MaxFaults == 1

\* ------------------------------------------------------- Python primitives
Range(s) == {s[k] : k \in DOMAIN s}

RECURSIVE SplitAcc(_, _, _)
SplitAcc(s, sep, cur) ==
    IF s = <<>> THEN <<cur>>
    ELSE IF Head(s) = sep THEN <<cur>> \o SplitAcc(Tail(s), sep, <<>>)
    ELSE SplitAcc(Tail(s), sep, Append(cur, Head(s)))

\* str.split(sep) for a one-character separator
Split(s, sep) == SplitAcc(s, sep, <<>>)

DigitChars == <<"0", "1", "2", "3", "4", "5", "6", "7", "8", "9">>

DigitVal(c) == (CHOOSE k \in DOMAIN DigitChars : DigitChars[k] = c) - 1

RECURSIVE PyStrNat(_)
PyStrNat(n) ==
    IF n < 10 THEN <<DigitChars[n + 1]>>
    ELSE Append(PyStrNat(n \div 10), DigitChars[(n % 10) + 1])

\* str(n) / '{}'.format(n) for an integer n
PyStr(n) == IF n < 0 THEN <<"-">> \o PyStrNat(0 - n) ELSE PyStrNat(n)

RECURSIVE PyIntAcc(_, _)
PyIntAcc(s, acc) ==
    IF s = <<>> THEN acc
    ELSE PyIntAcc(Tail(s), acc * 10 + DigitVal(Head(s)))

\* int(s) for a string of decimal digits
PyInt(s) == PyIntAcc(s, 0)

\* ------------------------------------------------------------ configuration
FILE_VERSION == <<"7", ".", "0", ".", "0">>

STATES == <<"p", "r", "o", "v", "i", "n", "c", "i", "a", "s">>

GEOM_INDEX(a) == a \o <<"-", "g", "e", "o", "m", "e", "t", "r", "i", "a">>

ALL == <<"a", "l", "l">>

\* a missing (None) file path of a GeorefIndex
NoPath == "None"

\* the `includes` argument of a GeorefIndex: None by default, or a list of
\* field names
NoIncludes == [given |-> FALSE, fields |-> <<>>]

Includes(fields) == [given |-> TRUE, fields |-> fields]

\* bool(self._includes): None and the empty list are both false
IncludesTruthy(includes) == includes.given /\ includes.fields # <<>>

\* the catalog entries of run_index that share STATES_FILE: the entity index
\* and its geometry-only sibling (no synonyms, no backup, field allowlist)
indices ==
    << [alias |-> STATES,
        filepath |-> "STATES_FILE",
        synonyms_filepath |-> "SYNONYMS_FILE",
        backup_filepath |-> "backups/provincias.json",
        includes |-> NoIncludes],
       [alias |-> GEOM_INDEX(STATES),
        filepath |-> "STATES_FILE",
        synonyms_filepath |-> NoPath,
        backup_filepath |-> NoPath,
        includes |-> Includes(<<"id", "geometria">>)] >>

\* values of the -n option that select something of this catalog
Selectors == {ALL} \cup {indices[k].alias : k \in DOMAIN indices}

\* ------------------------------------------------------------ file contents
\* None: what _fetch_data returns when the download, read or parse failed
NoneV == [kind |-> "none"]

\* a file that parses to an empty (falsy) JSON value
EmptyJson == [kind |-> "empty"]

\* a file cut short by a failed write: its content does not parse
Partial == [kind |-> "partial"]

Doc1 == [id |-> 82, nombre |-> "Santa Fe", geometria |-> "g82"]

Doc2 == [nombre |-> "Chaco", geometria |-> "g0"]

DocLists == { <<Doc1, Doc2>> }

Versions == { <<"7", ".", "1", ".", "0">>, <<"8", ".", "0", ".", "0">> }

Datasets ==
    { [kind |-> "json", version |-> v, timestamp |-> t,
       fecha_creacion |-> "fecha", datos |-> d] :
         v \in Versions, t \in 0..MaxTs, d \in DocLists }

Txt(chars) == [kind |-> "txt", text |-> chars]

SynonymTexts == { Txt(<<>>), Txt(<<" ", "a", "\n", "#", "b", "\n", "\n", "c", " ">>) }

\* bool(data) of a fetched value
Truthy(data) ==
    CASE data.kind = "none" -> FALSE
      [] data.kind = "empty" -> FALSE
      [] data.kind = "txt" -> data.text # <<>>
      [] OTHER -> TRUE

\* uuid.uuid4().hex[:8]: the values the model draws from, in a fixed order
HexPool ==
    << <<"0", "0", "0", "0", "0", "0", "0", "a">>,
       <<"0", "0", "0", "0", "0", "0", "0", "b">> >>

EmptyFn == [x \in {} |-> NoneV]

\* one logged message; `arg` is what the message was formatted with
LogArg(level, msg, arg) == [level |-> level, msg |-> msg, arg |-> arg]

LogEntry(level, msg) == LogArg(level, msg, <<>>)

\* -------------------------------------------------------------------- state
VARIABLES
    es_indices,   \* engine: names of the physical indices that exist
    es_aliases,   \* engine: set of <<alias, physical index name>>
    backups,      \* file system: backup path |-> content of the file, if it exists
    files_cache,  \* run_index.files_cache: location |-> fetched content
    log,          \* loggerStream: entries logged by this process, oldest first
    sent,         \* arguments of the calls of send_index_email by this process
    run,          \* arguments of run_index, its position in the catalog, and
                  \*          mail_config['enabled'] once it has been read
    pc,           \* position of the process inside run_index / create_or_reindex
    loc,          \* locals of the create_or_reindex call in progress
    pre,          \* history of the current call: its catalog position, the engine
                  \*          and backup state when it began, what the primary source
                  \*          yielded, the bulk operations sent to the engine, and how
                  \*          it ended ("no": still in progress)
    calls,        \* history: number of create_or_reindex calls begun
    faults,       \* history: number of calls that raised
    gen,          \* one call of _bulk_update_generator on its own: its arguments
                  \*          and what it yielded
    syn,          \* one call of _parse_elasticsearch_synonyms on its own, and a
                  \*          second one on its joined result
    dl,           \* one call of download, on its own or from _fetch_data: its
                  \*          arguments, what each HTTP attempt would yield, its loop
                  \*          counter and last error, the requests and sleeps made so
                  \*          far, and its outcome
    prm,          \* one call of EndpointParameters.parse_params_dict, or of
                  \*          FieldListParameter.get_value, on its own: its
                  \*          arguments and its outcome
    nm            \* one call of _check_index_newer on its own: the alias, the
                  \*          uuid prefixes and the dataset timestamps the two
                  \*          names were built from, the names and the result

vars == <<es_indices, es_aliases, backups, files_cache, log, sent, run, pc, loc,
          pre, calls, faults, gen, syn, dl, prm, nm>>

NoRun == [forced |-> FALSE, name |-> ALL, i |-> 0, mail_enabled |-> FALSE]

NoLocals ==
    [data |-> NoneV, synonyms |-> <<>>, ok |-> FALSE, new_index |-> <<>>,
     old_index |-> <<>>, check_timestamp |-> FALSE, attempt |-> 0]

NoPre ==
    [i |-> 0, es_indices |-> {}, es_aliases |-> {}, backups |-> EmptyFn,
     primary |-> NoneV, operations |-> <<>>, oks |-> <<>>, ended |-> "no"]

\* an engine without indices, no backup files, no process running
\* no call of _bulk_update_generator on its own
NoGen == [stage |-> "none", docs |-> <<>>, includes |-> NoIncludes, out |-> <<>>]

\* no call of _parse_elasticsearch_synonyms on its own
NoSyn == [stage |-> "none", contents |-> NoneV, out |-> <<>>, again |-> <<>>]

\* the engine, the files and the process before the first run
Constructed ==
    /\ es_indices = {}
    /\ es_aliases = {}
    /\ backups = EmptyFn
    /\ files_cache = EmptyFn
    /\ log = <<>>
    /\ sent = <<>>
    /\ run = NoRun
    /\ pc = "idle"
    /\ loc = NoLocals
    /\ pre = NoPre
    /\ calls = 0
    /\ faults = 0

\* no call of download on its own
NoDl ==
    [stage |-> "none", caller |-> "none", tries |-> 0, world |-> <<>>, i |-> 0,
     download_exception |-> "unbound", trace |-> <<>>, result |-> "none"]

\* no call of parse_params_dict or of FieldListParameter.get_value on its own
NoPrm == [stage |-> "none"]

\* no call of _check_index_newer on its own
NoNm == [stage |-> "none"]

Init ==
    /\ Constructed
    /\ gen = NoGen
    /\ syn = NoSyn
    /\ dl = NoDl
    /\ prm = NoPrm
    /\ nm = NoNm

\* the GeorefIndex object being processed
self == indices[run.i]

\* ------------------------------------------------------------- _fetch_data
\* what reading `filepath` can yield when it is not cached: None on a
\* download / file-system / parse failure, else the parsed content
ReadOutcomes(filepath, fmt) ==
    {NoneV} \cup
    (IF filepath \in DOMAIN backups
        THEN (IF backups[filepath].kind = "partial" THEN {} ELSE {backups[filepath]})
     ELSE IF filepath \in {indices[k].backup_filepath : k \in DOMAIN indices} THEN {}
     ELSE IF fmt = "json" THEN Datasets \cup {EmptyJson}
     ELSE SynonymTexts)

\* return value of _fetch_data(filepath, cache), `io` being what the read yields
FetchData(filepath, cache, io) ==
    IF filepath \in DOMAIN cache THEN cache[filepath] ELSE io

\* variant: whatever the fetch yields is stored, a failure included
FetchCache_memoize(filepath, cache, io) ==
    IF filepath \in DOMAIN cache THEN cache
    ELSE (filepath :> io) @@ cache

\* files_cache after _fetch_data(filepath, cache)
FetchCache(filepath, cache, io) ==
    IF filepath \in DOMAIN cache THEN cache
    ELSE IF Truthy(io) THEN (filepath :> io) @@ cache
    ELSE cache

\* entries logged by _fetch_data(filepath, cache)
FetchLog(filepath, cache, io) ==
    IF filepath \in DOMAIN cache THEN <<LogArg("INFO", "cached", filepath)>>
    ELSE IF io.kind = "none"
         THEN <<LogArg("INFO", "read", filepath), LogEntry("WARNING", "unavailable")>>
    ELSE <<LogArg("INFO", "read", filepath)>>

\* --------------------------------------------- _parse_elasticsearch_synonyms
Whitespace == {" ", "\t", "\n", "\r"}

RECURSIVE LStrip(_)
LStrip(s) == IF s # <<>> /\ Head(s) \in Whitespace THEN LStrip(Tail(s)) ELSE s

RECURSIVE RStrip(_)
RStrip(s) ==
    IF s # <<>> /\ s[Len(s)] \in Whitespace THEN RStrip(SubSeq(s, 1, Len(s) - 1)) ELSE s

\* str.strip()
Strip(s) == RStrip(LStrip(s))

\* the line boundaries of str.splitlines() among the characters used here
LineEnds == {"\n", "\r"}

RECURSIVE SplitLinesAcc(_, _)
SplitLinesAcc(s, cur) ==
    IF s = <<>> THEN (IF cur = <<>> THEN <<>> ELSE <<cur>>)
    ELSE IF Head(s) = "\r" /\ Len(s) >= 2 /\ s[2] = "\n"
         THEN <<cur>> \o SplitLinesAcc(Tail(Tail(s)), <<>>)
    ELSE IF Head(s) \in LineEnds THEN <<cur>> \o SplitLinesAcc(Tail(s), <<>>)
    ELSE SplitLinesAcc(Tail(s), Append(cur, Head(s)))

\* str.splitlines(): lines end at "\n", "\r" or "\r\n", the line ends are
\* dropped, and there is no empty last line after a final line end
SplitLines(s) == SplitLinesAcc(s, <<>>)

RECURSIVE KeepRules(_)
KeepRules(lines) ==
    IF lines = <<>> THEN <<>>
    ELSE IF Head(lines) # <<>> /\ Head(Head(lines)) # "#"
         THEN <<Head(lines)>> \o KeepRules(Tail(lines))
    ELSE KeepRules(Tail(lines))

\* variant: without the `if not contents` guard, None read as the text 'None'
_parse_synonyms_unguarded(contents) ==
    IF contents.kind = "none" THEN << <<"N", "o", "n", "e">> >>
    ELSE IF contents.text = <<>> THEN <<>>
    ELSE KeepRules([k \in DOMAIN SplitLines(contents.text) |->
                        Strip(SplitLines(contents.text)[k])])

\* variant: the lines are filtered without being stripped
_parse_synonyms_unstripped(contents) ==
    IF ~Truthy(contents) THEN <<>> ELSE KeepRules(SplitLines(contents.text))

\* if not contents: return []; else the stripped lines that are neither
\* empty nor comments
_parse_elasticsearch_synonyms(contents) ==
    IF ~Truthy(contents) THEN <<>>
    ELSE KeepRules([k \in DOMAIN SplitLines(contents.text) |->
                        Strip(SplitLines(contents.text)[k])])

\* ------------------------------------------------------------ index names
\* '{}-{}-{}'.format(self._alias, uuid.uuid4().hex[:8], timestamp)
IndexName(alias, hex, timestamp) ==
    alias \o <<"-">> \o hex \o <<"-">> \o PyStr(timestamp)

\* int(index.split('-')[-1])
NameTimestamp(index) == PyInt(Split(index, "-")[Len(Split(index, "-"))])

\* variant: data as old as the indexed data counts as newer
_check_index_newer_ge(new_index, old_index) ==
    IF old_index = <<>> THEN TRUE
    ELSE NameTimestamp(new_index) >= NameTimestamp(old_index)

\* variant: the timestamps are compared the wrong way round
_check_index_newer_reversed(new_index, old_index) ==
    IF old_index = <<>> THEN TRUE
    ELSE NameTimestamp(new_index) < NameTimestamp(old_index)

\* new timestamp > old timestamp, both read from the index names; True when
\* there is no old index
_check_index_newer(new_index, old_index) ==
    IF old_index = <<>> THEN TRUE
    ELSE NameTimestamp(new_index) > NameTimestamp(old_index)

\* variant: the version check is missing
VersionMismatch_never(version) == FALSE

\* the outcomes of uuid.uuid4().hex[:8] that differ for the program: every
\* value that makes the name of an existing index, and one value (the first
\* of the pool) that makes a name no index has
HexChoices(alias, timestamp, existing) ==
    LET used  == {k \in DOMAIN HexPool :
                     IndexName(alias, HexPool[k], timestamp) \in existing}
        fresh == DOMAIN HexPool \ used
        first == {k \in fresh : \A j \in fresh : k <= j}
    IN  {HexPool[k] : k \in used \cup first}

\* version.split('.')[0] != FILE_VERSION.split('.')[0]
VersionMismatch(version) == Split(version, ".")[1] # Split(FILE_VERSION, ".")[1]

\* the indices `alias` resolves to: es.indices.get_alias(name=alias).keys()
AliasTargets(aliases, alias) == {p[2] : p \in {q \in aliases : q[1] = alias}}

\* values _get_old_index can return
OldIndexChoices ==
    IF AliasTargets(es_aliases, self.alias) = {} THEN {<<>>}
    ELSE AliasTargets(es_aliases, self.alias)

\* ---------------------------------------------------- _bulk_update_generator
\* {key: doc[key] for key in doc if key in self._includes}
Project(doc, includes) ==
    [key \in (DOMAIN doc) \cap Range(includes.fields) |-> doc[key]]

\* the action yielded for the document `doc` at position i (from 0)
BulkAction(doc, i, index, includes) ==
    LET d == IF IncludesTruthy(includes) THEN Project(doc, includes) ELSE doc
    IN  [_op_type |-> "create",
         _id |-> IF "id" \in DOMAIN d THEN d["id"] ELSE i,
         _index |-> index,
         _source |-> d]

_bulk_update_generator(docs, index, includes) ==
    [k \in DOMAIN docs |-> BulkAction(docs[k], k - 1, index, includes)]

\* -------------------------------------------------------- _insert_documents
\* the loop over helpers.streaming_bulk: `oks[k]` is whether the engine
\* created operation k; returns the counters, the operations sent and the
\* warnings logged
RECURSIVE BulkLoop(_, _, _)
BulkLoop(operations, oks, acc) ==
    IF operations = <<>> THEN acc
    ELSE IF Head(oks)
         THEN BulkLoop(Tail(operations), Tail(oks),
                       [acc EXCEPT !.creations = @ + 1,
                                   !.operations = Append(@, Head(operations))])
    ELSE BulkLoop(Tail(operations), Tail(oks),
                  [acc EXCEPT !.errors = @ + 1,
                              !.operations = Append(@, Head(operations)),
                              !.log = Append(@, LogArg("WARNING", "doc_error",
                                                       Head(operations)._id))])

\* variant: the first rejected document ends the load
RECURSIVE BulkLoopAbort(_, _, _)
BulkLoopAbort(operations, oks, acc) ==
    IF operations = <<>> THEN acc
    ELSE IF Head(oks)
         THEN BulkLoopAbort(Tail(operations), Tail(oks),
                            [acc EXCEPT !.creations = @ + 1,
                                        !.operations = Append(@, Head(operations))])
    ELSE [acc EXCEPT !.errors = @ + 1,
                     !.operations = Append(@, Head(operations)),
                     !.log = Append(@, LogArg("WARNING", "doc_error",
                                              Head(operations)._id))]

_insert_documents_abort(operations, oks) ==
    BulkLoopAbort(operations, oks,
                  [creations |-> 0, errors |-> 0, operations |-> <<>>, log |-> <<>>])

_insert_documents(operations, oks) ==
    BulkLoop(operations, oks,
             [creations |-> 0, errors |-> 0, operations |-> <<>>, log |-> <<>>])

\* ----------------------------------------------------------- _update_aliases
\* variant: the alias is added to the new index and never removed from the old
alias_ops_add_only(alias, index, old_index) ==
    <<[op |-> "add", index |-> index, alias |-> alias]>>

\* the actions of the single update_aliases request: remove (only with an old
\* index), then add
alias_ops(alias, index, old_index) ==
    (IF old_index # <<>>
        THEN <<[op |-> "remove", index |-> old_index, alias |-> alias]>>
        ELSE <<>>)
    \o <<[op |-> "add", index |-> index, alias |-> alias]>>

\* es.indices.update_aliases({'actions': ops}): all actions in one atomic request
RECURSIVE update_aliases(_, _)
update_aliases(aliases, ops) ==
    IF ops = <<>> THEN aliases
    ELSE update_aliases(
            IF Head(ops).op = "remove"
                THEN aliases \ {<<Head(ops).alias, Head(ops).index>>}
                ELSE aliases \cup {<<Head(ops).alias, Head(ops).index>>},
            Tail(ops))

\* ================================================================ run_index
\* run_index(es, forced, name) begins: a new process with an empty cache
StartRun(forced, name) ==
    /\ pc = "idle"
    /\ calls < MaxCalls
    /\ run' = [forced |-> forced, name |-> name, i |-> 1, mail_enabled |-> FALSE]
    /\ files_cache' = EmptyFn
    /\ log' = <<LogEntry("INFO", "start")>>
    /\ pc' = "loop"
    /\ UNCHANGED <<es_indices, es_aliases, backups, sent, loc, pre, calls, faults, gen, syn, dl, prm, nm>>

\* os.makedirs(backups_dir, exist_ok=True) raises (the directory cannot be
\* created): nothing catches it, run_index ends with the exception before
\* anything is logged or indexed
SetupRaises(forced, name) ==
    /\ pc = "idle"
    /\ run' = [forced |-> forced, name |-> name, i |-> 0, mail_enabled |-> FALSE]
    /\ pc' = "escaped"
    /\ UNCHANGED <<es_indices, es_aliases, backups, files_cache, log, sent, loc, pre,
                   calls, faults, gen, syn, dl, prm, nm>>

\* variant: every catalog entry is processed whatever the selector
selected_always == TRUE

\* if name in ['all', index.alias]
selected == run.name \in {ALL, self.alias}

\* for index in indices: name selects another index
SkipIndex ==
    /\ pc = "loop"
    /\ run.i <= Len(indices)
    /\ ~selected
    /\ run' = [run EXCEPT !.i = @ + 1]
    /\ UNCHANGED <<es_indices, es_aliases, backups, files_cache, log, sent, pc, loc,
                   pre, calls, faults, gen, syn, dl, prm, nm>>

\* for index in indices: index.create_or_reindex(es, files_cache, forced) is entered
BeginCall ==
    /\ pc = "loop"
    /\ run.i <= Len(indices)
    /\ selected
    /\ calls < MaxCalls
    /\ calls' = calls + 1
    /\ log' = Append(log, LogArg("INFO", "separator", self.alias))
    /\ loc' = NoLocals
    /\ pre' = [NoPre EXCEPT !.i = run.i, !.es_indices = es_indices,
                            !.es_aliases = es_aliases, !.backups = backups]
    /\ pc' = "fetch"
    /\ UNCHANGED <<es_indices, es_aliases, backups, files_cache, sent, run, faults, gen, syn, dl, prm, nm>>

\* ======================================================== create_or_reindex
\* data = self._fetch_data(self._filepath, files_cache)
FetchPrimary(io) ==
    /\ pc = "fetch"
    /\ loc' = [loc EXCEPT !.data = FetchData(self.filepath, files_cache, io)]
    /\ files_cache' = FetchCache(self.filepath, files_cache, io)
    /\ log' = log \o FetchLog(self.filepath, files_cache, io)
    /\ pre' = [pre EXCEPT !.primary = FetchData(self.filepath, files_cache, io)]
    /\ pc' = "synonyms"
    /\ UNCHANGED <<es_indices, es_aliases, backups, sent, run, calls, faults, gen, syn, dl, prm, nm>>

\* variant: the first attempt checks the timestamp whatever forced is
check_timestamp_always == TRUE

\* check_timestamp=not forced
check_timestamp_first == ~run.forced

\* the synonyms are fetched and parsed when configured; the first
\* _create_or_reindex_with_data is then called with check_timestamp = not forced
FetchSynonyms(io) ==
    /\ pc = "synonyms"
    /\ IF self.synonyms_filepath # NoPath
          THEN /\ loc' = [loc EXCEPT
                    !.synonyms = _parse_elasticsearch_synonyms(
                        FetchData(self.synonyms_filepath, files_cache, io)),
                    !.check_timestamp = check_timestamp_first,
                    !.attempt = 1]
               /\ files_cache' = FetchCache(self.synonyms_filepath, files_cache, io)
               /\ log' = log \o FetchLog(self.synonyms_filepath, files_cache, io)
          ELSE /\ loc' = [loc EXCEPT !.check_timestamp = check_timestamp_first, !.attempt = 1]
               /\ UNCHANGED <<files_cache, log>>
    /\ pc' = "attempt"
    /\ UNCHANGED <<es_indices, es_aliases, backups, sent, run, pre,
                   calls, faults, gen, syn, dl, prm, nm>>

\* the values uuid4 may yield for the name built at this point of the call
CallHexChoices ==
    IF Truthy(loc.data)
       THEN HexChoices(self.alias, loc.data.timestamp, es_indices)
       ELSE {HexPool[1]}

\* _create_or_reindex_with_data up to the staleness check: returns False (no
\* data, incompatible version, stale data) or goes on to create the index
CheckData(hex, old_index) ==
    /\ pc = "attempt"
    /\ old_index \in OldIndexChoices
    /\ IF ~Truthy(loc.data)
          THEN /\ log' = Append(log, LogEntry("WARNING", "no_data"))
               /\ loc' = [loc EXCEPT !.ok = FALSE]
               /\ pc' = "return"
       ELSE IF VersionMismatch(loc.data.version)
          THEN /\ log' = log \o <<LogArg("INFO", "data_version", loc.data.version),
                                   LogEntry("WARNING", "incompatible_version")>>
               /\ loc' = [loc EXCEPT !.ok = FALSE]
               /\ pc' = "return"
       ELSE LET new_index == IndexName(self.alias, hex, loc.data.timestamp)
            IN  IF loc.check_timestamp /\ ~_check_index_newer(new_index, old_index)
                   THEN /\ log' = log \o <<LogArg("INFO", "data_version", loc.data.version),
                                            LogArg("WARNING", "skip_stale", new_index)>>
                        /\ loc' = [loc EXCEPT !.ok = FALSE, !.new_index = new_index,
                                              !.old_index = old_index]
                        /\ pc' = "return"
                   ELSE /\ log' = log \o
                              <<LogArg("INFO", "data_version", loc.data.version)>> \o
                              (IF loc.check_timestamp THEN <<>>
                               ELSE <<LogEntry("INFO", "timestamp_check_omitted")>>)
                        /\ loc' = [loc EXCEPT !.new_index = new_index,
                                              !.old_index = old_index]
                        /\ pc' = "create"
    /\ UNCHANGED <<es_indices, es_aliases, backups, files_cache, sent, run, pre,
                   calls, faults, gen, syn, dl, prm, nm>>

\* self._create_index(es, new_index, synonyms)
CreateIndex ==
    /\ pc = "create"
    /\ loc.new_index \notin es_indices
    /\ es_indices' = es_indices \cup {loc.new_index}
    /\ log' = Append(log, LogArg("INFO", "create_index", loc.new_index))
    /\ pc' = "insert"
    /\ UNCHANGED <<es_aliases, backups, files_cache, sent, run, loc, pre,
                   calls, faults, gen, syn, dl, prm, nm>>

\* self._insert_documents(es, new_index, docs): the engine creates the
\* operations k with oks[k] and rejects the others
InsertDocuments(oks) ==
    /\ pc = "insert"
    /\ oks \in [DOMAIN loc.data.datos -> BOOLEAN]
    /\ LET r == _insert_documents(
                    _bulk_update_generator(loc.data.datos, loc.new_index, self.includes),
                    oks)
       IN  /\ pre' = [pre EXCEPT !.operations = r.operations, !.oks = oks]
           /\ log' = log \o <<LogEntry("INFO", "insert")>> \o r.log \o
                     <<LogArg("INFO", "summary",
                              <<Len(loc.data.datos), r.creations, r.errors>>)>>
    /\ pc' = "swap"
    /\ UNCHANGED <<es_indices, es_aliases, backups, files_cache, sent, run, loc,
                   calls, faults, gen, syn, dl, prm, nm>>

\* variant: when there is an old index, the alias is not moved before the
\* old index is deleted
UpdateAliases_Omitted ==
    /\ pc = "swap"
    /\ IF loc.old_index # <<>>
          THEN /\ pc' = "delete"
               /\ UNCHANGED <<es_aliases, log, loc>>
          ELSE /\ es_aliases' = update_aliases(es_aliases,
                                               alias_ops(self.alias, loc.new_index, <<>>))
               /\ log' = Append(log, LogArg("INFO", "update_aliases",
                                            alias_ops(self.alias, loc.new_index, <<>>)))
               /\ pc' = "return"
               /\ loc' = [loc EXCEPT !.ok = TRUE]
    /\ UNCHANGED <<es_indices, backups, files_cache, sent, run, pre, calls, faults, gen, syn, dl, prm, nm>>

\* self._update_aliases(es, new_index, old_index); without an old index
\* _create_or_reindex_with_data returns True here
UpdateAliases ==
    /\ pc = "swap"
    /\ es_aliases' = update_aliases(es_aliases,
                                    alias_ops(self.alias, loc.new_index, loc.old_index))
    /\ log' = Append(log, LogArg("INFO", "update_aliases",
                                 alias_ops(self.alias, loc.new_index, loc.old_index)))
    /\ IF loc.old_index # <<>>
          THEN pc' = "delete" /\ loc' = loc
          ELSE pc' = "return" /\ loc' = [loc EXCEPT !.ok = TRUE]
    /\ UNCHANGED <<es_indices, backups, files_cache, sent, run, pre,
                   calls, faults, gen, syn, dl, prm, nm>>

\* variant: the old index is left in the engine
DeleteIndex_Omitted ==
    /\ pc = "delete"
    /\ loc' = [loc EXCEPT !.ok = TRUE]
    /\ pc' = "return"
    /\ UNCHANGED <<es_indices, es_aliases, backups, files_cache, log, sent, run, pre,
                   calls, faults, gen, syn, dl, prm, nm>>

\* self._delete_index(es, old_index), then return True; the engine drops
\* the aliases of a deleted index with it
DeleteIndex ==
    /\ pc = "delete"
    /\ loc.old_index \in es_indices
    /\ es_indices' = es_indices \ {loc.old_index}
    /\ es_aliases' = {p \in es_aliases : p[2] # loc.old_index}
    /\ log' = Append(log, LogArg("INFO", "delete_index", loc.old_index))
    /\ loc' = [loc EXCEPT !.ok = TRUE]
    /\ pc' = "return"
    /\ UNCHANGED <<backups, files_cache, sent, run, pre, calls, faults, gen, syn, dl, prm, nm>>

\* variant: the call falls back to the backup as long as it has not succeeded
retry_with_backup_again == run.forced /\ ~loc.ok

\* variant: the retry does not depend on forced
retry_with_backup_unforced == ~loc.ok /\ loc.attempt = 1

\* if forced and not ok
retry_with_backup == run.forced /\ ~loc.ok /\ loc.attempt = 1

\* variant: the retry keeps the staleness check
FetchBackup_Checked(io) ==
    /\ pc = "return"
    /\ retry_with_backup
    /\ self.backup_filepath # NoPath
    /\ loc' = [loc EXCEPT !.data = FetchData(self.backup_filepath, files_cache, io),
                          !.check_timestamp = TRUE,
                          !.attempt = 2]
    /\ files_cache' = FetchCache(self.backup_filepath, files_cache, io)
    /\ log' = log \o <<LogEntry("WARNING", "retry_with_backup")>> \o
              FetchLog(self.backup_filepath, files_cache, io)
    /\ pc' = "attempt"
    /\ UNCHANGED <<es_indices, es_aliases, backups, sent, run, pre, calls, faults, gen, syn, dl, prm, nm>>

\* fetch the backup and call _create_or_reindex_with_data again, with
\* check_timestamp = False
FetchBackup(io) ==
    /\ pc = "return"
    /\ retry_with_backup
    /\ self.backup_filepath # NoPath
    /\ loc' = [loc EXCEPT !.data = FetchData(self.backup_filepath, files_cache, io),
                          !.check_timestamp = FALSE,
                          !.attempt = 2]
    /\ files_cache' = FetchCache(self.backup_filepath, files_cache, io)
    /\ log' = log \o <<LogEntry("WARNING", "retry_with_backup")>> \o
              FetchLog(self.backup_filepath, files_cache, io)
    /\ pc' = "attempt"
    /\ UNCHANGED <<es_indices, es_aliases, backups, sent, run, pre,
                   calls, faults, gen, syn, dl, prm, nm>>

\* variant: only the documents are written to the backup file
_write_backup_docs_only(backup_filepath, data, files) ==
    (backup_filepath :> data.datos) @@ files

\* with open(self._backup_filepath, 'w') as f: json.dump(data, f)
_write_backup(backup_filepath, data, files) ==
    (backup_filepath :> data) @@ files

\* variant: the backup is written only when the engine rejected no document
writes_backup_clean_load ==
    /\ loc.ok
    /\ self.backup_filepath # NoPath
    /\ \A k \in DOMAIN pre.oks : pre.oks[k]

\* variant: the backup is written whatever the result of the indexing
writes_backup_always == self.backup_filepath # NoPath

\* variant: the backup is written only after a success of the primary source
writes_backup_primary_only ==
    loc.ok /\ self.backup_filepath # NoPath /\ loc.attempt = 1

\* if ok and self._backup_filepath: self._write_backup(data)
writes_backup == loc.ok /\ self.backup_filepath # NoPath

\* variant: a failed retry is not reported
backup_attempt_failed_silent == FALSE

\* `if not ok` inside `if forced and not ok`: the retry with the backup failed
backup_attempt_failed == run.forced /\ ~loc.ok

\* the end of create_or_reindex: the error of a failed retry is logged, the
\* backup is written after a success, and run_index goes on to the next index
Finish ==
    /\ pc = "return"
    /\ ~retry_with_backup
    /\ backups' = IF writes_backup
                     THEN _write_backup(self.backup_filepath, loc.data, backups)
                     ELSE backups
    /\ log' = log \o
              (IF backup_attempt_failed THEN <<LogEntry("ERROR", "backup_failed")>>
               ELSE <<>>) \o
              (IF writes_backup
                  THEN <<LogArg("INFO", "write_backup", self.backup_filepath),
                         LogEntry("INFO", "backup_written")>>
                  ELSE <<>>)
    /\ pre' = [pre EXCEPT !.ended = "returned"]
    /\ run' = [run EXCEPT !.i = @ + 1]
    /\ pc' = "loop"
    /\ UNCHANGED <<es_indices, es_aliases, files_cache, sent, loc,
                   calls, faults, gen, syn, dl, prm, nm>>

\* the points of _create_or_reindex_with_data where a call of the engine
\* can raise
raise_points == {"attempt", "create", "insert", "swap", "delete"}

\* where the call in progress is when it raises: an engine step, the fetch
\* of the backup or the write of the backup
RaisedAt ==
    IF pc # "return" THEN pc
    ELSE IF retry_with_backup THEN "fetch_backup"
    ELSE "write_backup"

\* variant: an exception ends the loop over the catalog
after_exception_stop == Len(indices) + 1

\* except Exception: the error is logged and the loop goes on with the
\* index after the one that raised
after_exception == run.i + 1

\* variant: the exception handler removes the index the call had created
engine_after_rollback == es_indices \ {loc.new_index}

\* the exception handler only logs: the engine keeps what the call had
\* created
engine_after_exception == es_indices

\* the call in progress raises: an engine call or the backup write fails
\* (nothing can fail before the data is known to be there), the
\* index to create exists already, or the backup path to fetch is None
\* (open(None) raises TypeError, which _fetch_data does not catch). A failed
\* backup write leaves the file as it was (open failed) or cut short (the
\* file was truncated by open and a write failed). run_index catches the
\* exception, logs it and goes on to the next index
CallRaises ==
    /\ \/ /\ pc \in raise_points
          /\ pc = "attempt" => Truthy(loc.data)
          /\ faults < MaxFaults
          /\ faults' = faults + 1
          /\ UNCHANGED backups
       \/ /\ pc = "return" /\ ~retry_with_backup /\ writes_backup
          /\ faults < MaxFaults
          /\ faults' = faults + 1
          /\ backups' \in {backups, (self.backup_filepath :> Partial) @@ backups}
       \/ /\ pc = "create" /\ loc.new_index \in es_indices
          /\ faults' = faults
          /\ UNCHANGED backups
       \/ /\ pc = "return" /\ retry_with_backup /\ self.backup_filepath = NoPath
          /\ faults' = faults
          /\ UNCHANGED backups
    /\ log' = log \o
              (IF RaisedAt = "fetch_backup"
                  THEN <<LogEntry("WARNING", "retry_with_backup")>> ELSE <<>>) \o
              (IF RaisedAt = "write_backup"
                  THEN <<LogArg("INFO", "write_backup", self.backup_filepath)>>
                  ELSE <<>>) \o
              <<LogArg("ERROR", "exception", RaisedAt)>>
    /\ pre' = [pre EXCEPT !.ended = "raised"]
    /\ run' = [run EXCEPT !.i = after_exception]
    /\ pc' = "loop"
    /\ es_indices' = engine_after_exception
    /\ UNCHANGED <<es_aliases, files_cache, sent, loc, calls, gen, syn, dl, prm, nm>>

\* variant: the mail does not wait for the end of the loop
loop_finished_early == TRUE

\* the statements after `for index in indices` are reached
loop_finished == run.i > Len(indices)

\* the arguments send_index_email is called with: loggerStream.getvalue()
\* after 'Enviando mail...' was logged, forced and env
mail_arguments ==
    [log |-> Append(log, LogEntry("INFO", "sending_mail")),
     forced |-> run.forced, env |-> "GEOREF_ENV"]

\* after the loop: the mail is sent when EMAIL_ENABLED, and run_index returns
Notify(enabled) ==
    /\ pc = "loop"
    /\ loop_finished
    /\ run' = [run EXCEPT !.mail_enabled = enabled]
    /\ log' = IF enabled
                 THEN log \o <<LogEntry("INFO", "sending_mail"), LogEntry("INFO", "mail_sent")>>
                 ELSE log
    /\ sent' = IF enabled THEN Append(sent, mail_arguments) ELSE sent
    /\ pc' = "done"
    /\ UNCHANGED <<es_indices, es_aliases, backups, files_cache, loc, pre,
                   calls, faults, gen, syn, dl, prm, nm>>

\* EMAIL_ENABLED and send_index_email raises (SMTP connection, login or
\* delivery fails): the call is outside the try of the loop, the exception
\* leaves run_index and 'Mail enviado.' is not logged
NotifyRaises ==
    /\ pc = "loop"
    /\ loop_finished
    /\ run' = [run EXCEPT !.mail_enabled = TRUE]
    /\ log' = Append(log, LogEntry("INFO", "sending_mail"))
    /\ sent' = Append(sent, mail_arguments)
    /\ pc' = "escaped"
    /\ UNCHANGED <<es_indices, es_aliases, backups, files_cache, loc, pre,
                   calls, faults, gen, syn, dl, prm, nm>>

\* main returns, or ends with the exception that left run_index, and the
\* process ends: its memory is gone, the engine's indices and aliases and the
\* backup files stay
Exit ==
    /\ pc \in {"done", "escaped"}
    /\ files_cache' = EmptyFn
    /\ log' = <<>>
    /\ sent' = <<>>
    /\ run' = NoRun
    /\ loc' = NoLocals
    /\ pre' = NoPre
    /\ pc' = "idle"
    /\ UNCHANGED <<es_indices, es_aliases, backups, calls, faults, gen, syn, dl, prm, nm>>

Next ==
    \/ \E forced \in BOOLEAN, name \in Selectors : StartRun(forced, name)
    \/ SkipIndex
    \/ BeginCall
    \/ pc = "fetch" /\ \E io \in ReadOutcomes(self.filepath, "json") : FetchPrimary(io)
    \/ pc = "synonyms" /\ \E io \in ReadOutcomes(self.synonyms_filepath, "txt") : FetchSynonyms(io)
    \/ pc = "attempt" /\ \E hex \in CallHexChoices, old_index \in OldIndexChoices : CheckData(hex, old_index)
    \/ CreateIndex
    \/ pc = "insert" /\ \E oks \in [DOMAIN loc.data.datos -> BOOLEAN] : InsertDocuments(oks)
    \/ UpdateAliases
    \/ DeleteIndex
    \/ pc = "return" /\ \E io \in ReadOutcomes(self.backup_filepath, "json") : FetchBackup(io)
    \/ Finish
    \/ CallRaises
    \/ Notify(TRUE)
    \/ Notify(FALSE)
    \/ Exit

\* the runs in which neither the setup of run_index nor the mail fails
Spec == Init /\ [][Next]_vars

\* all runs: those of Spec, and those that an exception raised outside the
\* loop over the catalog ends
NextRun ==
    \/ Next
    \/ \E forced \in BOOLEAN, name \in Selectors : SetupRaises(forced, name)
    \/ NotifyRaises

SpecRun == Init /\ [][NextRun]_vars

\* ------------------------------------- _bulk_update_generator on its own
\* the documents and allowlists it is called with
MaxDocs == 2

MaxIncludes == 2

Doc3 == [id |-> 6]

GenDocs == {Doc1, Doc2, Doc3}

GenFields == {"id", "geometria", "otro"}

GenDocLists == UNION {[1..n -> GenDocs] : n \in 0..MaxDocs}

GenIncludes ==
    {NoIncludes} \cup {Includes(l) : l \in UNION {[1..n -> GenFields] : n \in 0..MaxIncludes}}

GenIndex == IndexName(STATES, HexPool[1], 0)

GenInit ==
    /\ Constructed
    /\ gen \in {[stage |-> "input", docs |-> d, includes |-> inc, out |-> <<>>] :
                   d \in GenDocLists, inc \in GenIncludes}
    /\ syn = NoSyn
    /\ dl = NoDl
    /\ prm = NoPrm
    /\ nm = NoNm

\* list(self._bulk_update_generator(docs, index))
Generate ==
    /\ gen.stage = "input"
    /\ gen' = [gen EXCEPT !.stage = "yielded",
                          !.out = _bulk_update_generator(gen.docs, GenIndex, gen.includes)]
    /\ UNCHANGED <<es_indices, es_aliases, backups, files_cache, log, sent, run, pc,
                   loc, pre, calls, faults, syn, dl, prm, nm>>

GenNext == Generate

SpecGen == GenInit /\ [][GenNext]_vars

\* ---------------------------- _parse_elasticsearch_synonyms on its own
\* the longest text it is called with
MaxLen == 4

SynChars == {"a", "#", " ", "\n", "\r"}

\* None, the empty text and every text of at most MaxLen characters
SynInputs ==
    {NoneV} \cup {Txt(t) : t \in UNION {[1..n -> SynChars] : n \in 0..MaxLen}}

SynInit ==
    /\ Constructed
    /\ gen = NoGen
    /\ syn \in {[stage |-> "input", contents |-> c, out |-> <<>>, again |-> <<>>] :
                   c \in SynInputs}
    /\ dl = NoDl
    /\ prm = NoPrm
    /\ nm = NoNm

\* '\n'.join(lines)
RECURSIVE JoinLines(_)
JoinLines(lines) ==
    IF lines = <<>> THEN <<>>
    ELSE IF Len(lines) = 1 THEN lines[1]
    ELSE lines[1] \o <<"\n">> \o JoinLines(Tail(lines))

\* self._parse_elasticsearch_synonyms(contents)
ParseSynonyms ==
    /\ syn.stage = "input"
    /\ syn' = [syn EXCEPT !.stage = "parsed",
                          !.out = _parse_elasticsearch_synonyms(syn.contents)]
    /\ UNCHANGED <<es_indices, es_aliases, backups, files_cache, log, sent, run, pc,
                   loc, pre, calls, faults, gen, dl, prm, nm>>

\* self._parse_elasticsearch_synonyms('\n'.join(out))
ParseSynonymsAgain ==
    /\ syn.stage = "parsed"
    /\ syn' = [syn EXCEPT !.stage = "reparsed",
                          !.again = _parse_elasticsearch_synonyms(Txt(JoinLines(syn.out)))]
    /\ UNCHANGED <<es_indices, es_aliases, backups, files_cache, log, sent, run, pc,
                   loc, pre, calls, faults, gen, dl, prm, nm>>

SynNext == ParseSynonyms \/ ParseSynonymsAgain

SpecSyn == SynInit /\ [][SynNext]_vars

\* ------------------------------------------------- download on its own
\* the largest number of tries it is called with
MaxTries == 3

\* what one HTTP attempt can yield: the content of the file, or one of two
\* errors (requests.exceptions.RequestException)
Content == "content"

Errors == {"ConnectionError", "HTTPError"}

\* what the attempts would yield, one after the other
Worlds == [1..MaxTries -> {Content} \cup Errors]

\* download(url, tries=n) called directly, and download(filepath) as
\* _fetch_data calls it: with the default tries=1
DlInputs ==
    {[NoDl EXCEPT !.stage = "try", !.caller = "direct", !.tries = n, !.world = w] :
        n \in 1..MaxTries, w \in Worlds}
    \cup
    {[NoDl EXCEPT !.stage = "try", !.caller = "_fetch_data", !.tries = 1, !.world = w] :
        w \in Worlds}

DlInit ==
    /\ Constructed
    /\ gen = NoGen
    /\ syn = NoSyn
    /\ dl \in DlInputs
    /\ prm = NoPrm
    /\ nm = NoNm

\* variant: time.sleep after every failed attempt
sleeps_after_any(i, tries) == TRUE

\* if i < tries - 1: time.sleep(retry_delay)
sleeps_after(i, tries) == i < tries - 1

\* one iteration of `for i in range(tries)`: requests.get and
\* raise_for_status; the content is returned, or the error is kept and the
\* loop goes on, after time.sleep(retry_delay) unless this was the last try
Attempt ==
    /\ dl.stage = "try"
    /\ dl.i < dl.tries
    /\ LET response == dl.world[dl.i + 1]
       IN  IF response = Content
              THEN dl' = [dl EXCEPT !.stage = "returned", !.result = response,
                                    !.trace = Append(@, "get")]
              ELSE dl' = [dl EXCEPT !.download_exception = response,
                                    !.i = @ + 1,
                                    !.trace = @ \o (IF sleeps_after(dl.i, dl.tries)
                                                       THEN <<"get", "sleep">>
                                                       ELSE <<"get">>)]
    /\ UNCHANGED <<es_indices, es_aliases, backups, files_cache, log, sent, run, pc,
                   loc, pre, calls, faults, gen, syn, prm, nm>>

\* raise download_exception, after the loop
RaiseLast ==
    /\ dl.stage = "try"
    /\ dl.i >= dl.tries
    /\ dl' = [dl EXCEPT !.stage = "raised", !.result = dl.download_exception]
    /\ UNCHANGED <<es_indices, es_aliases, backups, files_cache, log, sent, run, pc,
                   loc, pre, calls, faults, gen, syn, prm, nm>>

\* _fetch_data after download(filepath): the content, or None when it raised
\* requests.exceptions.RequestException
FetchRemote ==
    /\ dl.caller = "_fetch_data"
    /\ dl.stage \in {"returned", "raised"}
    /\ dl' = [dl EXCEPT !.stage = "fetched",
                        !.result = IF dl.stage = "returned" THEN dl.result ELSE "None"]
    /\ UNCHANGED <<es_indices, es_aliases, backups, files_cache, log, sent, run, pc,
                   loc, pre, calls, faults, gen, syn, prm, nm>>

DlNext == Attempt \/ RaiseLast \/ FetchRemote

SpecDl == DlInit /\ [][DlNext]_vars

\* ------------------------------------------- _check_index_newer on its own
\* largest absolute value of the dataset timestamps the names are built from
MaxStamp == 11

\* the aliases of the catalog: one without a hyphen and one with a hyphen
Aliases == {indices[k].alias : k \in DOMAIN indices}

\* the candidate's name is built from the alias, a uuid prefix and the
\* dataset's timestamp; the old index is None (no index is aliased) or the
\* name an earlier call built for the same alias in the same way
NmInit ==
    /\ Constructed
    /\ gen = NoGen
    /\ syn = NoSyn
    /\ dl = NoDl
    /\ prm = NoPrm
    /\ \E alias \in Aliases, hex \in DOMAIN HexPool,
          timestamp \in (0 - MaxStamp)..MaxStamp :
          \/ nm = [stage |-> "names", alias |-> alias, timestamp |-> timestamp,
                   has_old |-> FALSE, old_timestamp |-> 0,
                   new_index |-> IndexName(alias, HexPool[hex], timestamp),
                   old_index |-> <<>>, result |-> FALSE]
          \/ \E old_hex \in DOMAIN HexPool, old_timestamp \in (0 - MaxStamp)..MaxStamp :
                nm = [stage |-> "names", alias |-> alias, timestamp |-> timestamp,
                      has_old |-> TRUE, old_timestamp |-> old_timestamp,
                      new_index |-> IndexName(alias, HexPool[hex], timestamp),
                      old_index |-> IndexName(alias, HexPool[old_hex], old_timestamp),
                      result |-> FALSE]

\* self._check_index_newer(new_index, old_index) with an old index
CheckIndexNewer ==
    /\ nm.stage = "names"
    /\ nm.has_old
    /\ nm' = [nm EXCEPT !.stage = "checked",
                        !.result = _check_index_newer(nm.new_index, nm.old_index)]
    /\ UNCHANGED <<es_indices, es_aliases, backups, files_cache, log, sent, run, pc,
                   loc, pre, calls, faults, gen, syn, dl, prm>>

\* self._check_index_newer(new_index, None)
CheckIndexNewerNoOld ==
    /\ nm.stage = "names"
    /\ ~nm.has_old
    /\ nm' = [nm EXCEPT !.stage = "checked",
                        !.result = _check_index_newer(nm.new_index, nm.old_index)]
    /\ UNCHANGED <<es_indices, es_aliases, backups, files_cache, log, sent, run, pc,
                   loc, pre, calls, faults, gen, syn, dl, prm>>

NmNext == CheckIndexNewer \/ CheckIndexNewerNoOld

SpecNames == NmInit /\ [][NmNext]_vars

\* ============================================================ service/params
\* A value a parameter receives or yields.  A string is a sequence of atoms:
\* an atom is one character, or a lower-case word (a field or parameter name,
\* or "foo") standing for its letters; no word holds a digit, a separator or
\* white space, and none spells a number ("nan", "inf").  The body of a POST
\* request is JSON, so a received value may also be a number.  A value is
\* the pair of its Python type and what it holds.
PNone == <<"None", <<>>>>

PStr(s) == <<"str", s>>

PNum(n) == <<"int", n>>

PBool(b) == <<"bool", b>>

\* a list of field names, its order left aside
PList(S) == <<"list", S>>

\* a Python float, as the fraction num / den
PFloat(num, den) == <<"float", <<num, den>>>>

\* (name, num) of AddressParameter; num is PNone for an address without number
PTuple(a, b) == <<"tuple", <<a, b>>>>

\* the defaultdict of IntersectionParameter: entity type |-> set of ids
PDict(d) == <<"dict", d>>

\* how a call ended: it returned `value`, or it raised the exception `raised`
Returned(value) == [raised |-> "no", value |-> value]

Raised(exception) == [raised |-> exception, value |-> PNone]

\* `not val`
Falsy(val) ==
    CASE val[1] = "None" -> TRUE
      [] val[1] = "str" -> val[2] = <<>>
      [] val[1] = "int" -> val[2] = 0
      [] val[1] = "bool" -> ~val[2]
      [] OTHER -> FALSE

\* str.isdigit()
IsDigit(s) == s # <<>> /\ \A k \in DOMAIN s : s[k] \in Range(DigitChars)

\* str.rjust(width, fillchar)
RJust(s, width, fillchar) ==
    IF Len(s) >= width THEN s ELSE [k \in 1..(width - Len(s)) |-> fillchar] \o s

\* an optional sign, then the rest
Signed(s) ==
    IF s # <<>> /\ Head(s) \in {"-", "+"}
       THEN [neg |-> Head(s) = "-", rest |-> Tail(s)]
       ELSE [neg |-> FALSE, rest |-> s]

\* int(val): of a number, the number; of a string, white space around an
\* optional sign and decimal digits; ValueError otherwise
IntOf(val) ==
    CASE val[1] = "int" -> Returned(val[2])
      [] val[1] = "str" ->
            LET s == Signed(Strip(val[2]))
            IN  IF IsDigit(s.rest)
                   THEN Returned(IF s.neg THEN 0 - PyInt(s.rest) ELSE PyInt(s.rest))
                   ELSE Raised("ValueError")
      [] OTHER -> Raised("TypeError")

RECURSIVE Pow10(_)
Pow10(n) == IF n = 0 THEN 1 ELSE 10 * Pow10(n - 1)

\* float(val): of a number, the number; of a string, white space around an
\* optional sign and decimal digits with at most one point; ValueError
\* otherwise
FloatOf(val) ==
    CASE val[1] = "int" -> Returned(PFloat(val[2], 1))
      [] val[1] = "str" ->
            LET s == Signed(Strip(val[2]))
                parts == Split(s.rest, ".")
                whole == parts[1]
                frac == IF Len(parts) = 2 THEN parts[2] ELSE <<>>
                digits == whole \o frac
            IN  IF Len(parts) <= 2 /\ IsDigit(digits)
                   THEN Returned(PFloat(IF s.neg THEN 0 - PyInt(digits) ELSE PyInt(digits),
                                        Pow10(Len(frac))))
                   ELSE Raised("ValueError")
      [] OTHER -> Raised("TypeError")

\* ------------------------------------------------------------ service/names
ID == <<"id">>
DOOR_NUM == <<"altura">>
ROAD_TYPE == <<"tipo">>
NAME == <<"nombre">>
FULL_NAME == <<"nomenclatura">>
\* N.STATE
N_STATE == <<"provincia">>
DEPT == <<"departamento">>
MUN == <<"municipio">>
LAT == <<"lat">>
LON == <<"lon">>
C_LAT == <<"centroide", ".", "lat">>
C_LON == <<"centroide", ".", "lon">>
END_R == <<"altura", ".", "fin", ".", "derecha">>
END_L == <<"altura", ".", "fin", ".", "izquierda">>
START_R == <<"altura", ".", "inicio", ".", "derecha">>
START_L == <<"altura", ".", "inicio", ".", "izquierda">>
SOURCE == <<"fuente">>
LOCALITY_TYPE == <<"tipo">>
LOCATION_LAT == <<"ubicacion", ".", "lat">>
LOCATION_LON == <<"ubicacion", ".", "lon">>
ADDRESS == <<"direccion">>
ORDER == <<"orden">>
FIELDS == <<"campos">>
FLATTEN == <<"aplanar">>
MAX == <<"max">>
OFFSET == <<"inicio">>
FORMAT == <<"formato">>
EXACT == <<"exacto">>
BASIC == <<"basico">>
STANDARD == <<"estandar">>
COMPLETE == <<"completo">>
INTERSECTION == <<"interseccion">>
DEPARTMENTS == <<"departamentos">>
MUNICIPALITIES == <<"municipios">>
STATE_ID == <<"provincia", ".", "id">>
STATE_NAME == <<"provincia", ".", "nombre">>
STATE_INTERSECTION == <<"provincia", ".", "interseccion">>
DEPT_ID == <<"departamento", ".", "id">>
DEPT_NAME == <<"departamento", ".", "nombre">>
MUN_ID == <<"municipio", ".", "id">>
MUN_NAME == <<"municipio", ".", "nombre">>

\* ---------------------------------------------------------------- Parameter
\* Parameter.__init__(required, default, choices); choices None is {}
Parameter(class, required, default, choices) ==
    [class |-> class, required |-> required, default |-> default, choices |-> choices]

StrParameter(default, choices) == Parameter("Str", FALSE, default, choices)

\* IdParameter.__init__(length, padding_char='0', padding_length=1)
IdParameter(length) ==
    [class |-> "Id", required |-> FALSE, default |-> PNone, choices |-> {},
     length |-> length, padding_char |-> "0", min_length |-> length - 1]

\* StrOrIdParameter.__init__(id_length, id_padding_char='0')
StrOrIdParameter(id_length) ==
    [class |-> "StrOrId", required |-> FALSE, default |-> PNone, choices |-> {},
     id_param |-> IdParameter(id_length), str_param |-> StrParameter(PNone, {})]

\* BoolParameter.__init__: super().__init__(False, False, [True, False])
BoolParameter ==
    Parameter("Bool", FALSE, PBool(FALSE), {PBool(TRUE), PBool(FALSE)})

\* FieldListParameter.__init__(basic, standard, complete): each set holds
\* the one before it; the default is the standard set, the choices the
\* complete set
FieldListParameter(basic, standard, complete) ==
    [class |-> "FieldList", required |-> FALSE,
     default |-> PList(standard \cup basic),
     choices |-> complete \cup standard \cup basic,
     basic |-> basic,
     standard |-> standard \cup basic,
     complete |-> complete \cup standard \cup basic]

\* IntParameter.__init__(required=False, default=0, choices=None,
\* lower_limit=None, upper_limit=None); a limit of None is PNone
IntParameter(default, lower_limit, upper_limit) ==
    [class |-> "Int", required |-> FALSE, default |-> PNum(default), choices |-> {},
     lower_limit |-> lower_limit, upper_limit |-> upper_limit]

FloatParameter(required) == Parameter("Float", required, PNone, {})

\* AddressParameter.__init__: super().__init__(required=True)
AddressParameter == Parameter("Address", TRUE, PNone, {})

\* service/constants: the lengths of the ids
STATE_ID_LEN == 2
DEPT_ID_LEN == 5
MUNI_ID_LEN == 6
LOCALITY_ID_LEN == 11
STREET_ID_LEN == 13

\* current_app.config: the longest result list and result window
MAX_RESULT_LEN == 5000
MAX_RESULT_WINDOW == 10000

\* IntersectionParameter.__init__(entities, required=False): one IdParameter
\* for each entity type accepted
IntersectionParameter(entities) ==
    [class |-> "Intersection", required |-> FALSE, default |-> PNone, choices |-> {},
     id_params |-> [entity \in entities |->
                       IdParameter(CASE entity = N_STATE -> STATE_ID_LEN
                                     [] entity = DEPT -> DEPT_ID_LEN
                                     [] entity = MUN -> MUNI_ID_LEN)]]

\* sep.join(parts)
RECURSIVE Join(_, _)
Join(parts, sep) ==
    IF parts = <<>> THEN <<>>
    ELSE IF Len(parts) = 1 THEN parts[1]
    ELSE parts[1] \o sep \o Join(Tail(parts), sep)

\* str.startswith(prefix)
StartsWith(s, prefix) ==
    Len(prefix) <= Len(s) /\ SubSeq(s, 1, Len(prefix)) = prefix

\* [part.strip() for part in val.split(sep)]
StrippedParts(s, sep) == [k \in DOMAIN Split(s, sep) |-> Strip(Split(s, sep)[k])]

\* StrParameter._parse_value
_parse_value_Str(val) ==
    IF Falsy(val) THEN Raised("ValueError") ELSE Returned(val)

\* IdParameter._parse_value; a number has no isdigit
_parse_value_Id(param, val) ==
    IF val[1] # "str" THEN Raised("AttributeError")
    ELSE IF \/ ~IsDigit(val[2])
            \/ Len(val[2]) > param.length
            \/ Len(val[2]) < param.min_length
         THEN Raised("ValueError")
    ELSE Returned(PStr(RJust(val[2], param.length, param.padding_char)))

\* BoolParameter._parse_value: val is not None
_parse_value_Bool(val) == Returned(PBool(val[1] # "None"))

\* field_prefix = '.'.join(field.split('.')[:-1]) + '.'
FieldPrefix(field) ==
    LET parts == Split(field, ".")
    IN  Join(SubSeq(parts, 1, Len(parts) - 1), <<".">>) \o <<".">>

\* FieldListParameter._expand_prefixes
_expand_prefixes(param, received) ==
    LET hits == {<<part, field>> \in received \X param.complete :
                    StartsWith(FieldPrefix(field), part \o <<".">>)}
        expanded == {h[2] : h \in hits}
        prefixes == {h[1] : h \in hits}
    IN  (received \ prefixes) \cup expanded

\* variant: the basic fields are not added to the fields asked for
_parse_fields_as_asked(param, received) == PList(received)

\* return list(self._basic | received)
_parse_fields_result(param, received) == PList(param.basic \cup received)

\* FieldListParameter._parse_value
_parse_value_FieldList(param, val) ==
    IF Falsy(val) THEN Raised("ValueError")
    ELSE IF val[1] # "str" THEN Raised("AttributeError")
    ELSE LET parts == StrippedParts(val[2], ",")
             received == Range(parts)
         IN  IF Len(parts) = 1 /\ parts[1] \in {BASIC, STANDARD, COMPLETE}
                THEN CASE parts[1] = BASIC -> Returned(PList(param.basic))
                       [] parts[1] = STANDARD -> Returned(PList(param.standard))
                       [] parts[1] = COMPLETE -> Returned(PList(param.complete))
             ELSE IF Len(parts) # Cardinality(received) THEN Raised("ValueError")
             ELSE Returned(_parse_fields_result(param, _expand_prefixes(param, received)))

\* IntParameter._parse_value
_parse_value_Int(param, val) ==
    LET int_val == IntOf(val)
    IN  IF int_val.raised # "no" THEN int_val
        ELSE IF param.lower_limit[1] # "None" /\ int_val.value < param.lower_limit[2]
                THEN Raised("ValueError")
        ELSE IF param.upper_limit[1] # "None" /\ int_val.value > param.upper_limit[2]
                THEN Raised("ValueError")
        ELSE Returned(PNum(int_val.value))

\* FloatParameter._parse_value
_parse_value_Float(val) == FloatOf(val)

\* str.strip(chars)
RECURSIVE StripChars(_, _)
StripChars(s, chars) ==
    IF s # <<>> /\ Head(s) \in chars THEN StripChars(Tail(s), chars)
    ELSE IF s # <<>> /\ s[Len(s)] \in chars
            THEN StripChars(SubSeq(s, 1, Len(s) - 1), chars)
    ELSE s

\* position of the first c in s, 0 if there is none
Find(s, c) ==
    IF \E k \in DOMAIN s : s[k] = c
       THEN CHOOSE k \in DOMAIN s : s[k] = c /\ \A j \in 1..(k - 1) : s[j] # c
       ELSE 0

\* re.sub(r'\(.*?\)|[nN][°º]', '', s)
RECURSIVE ReSubAddress(_)
ReSubAddress(s) ==
    IF s = <<>> THEN <<>>
    ELSE IF Head(s) = "(" /\ Find(Tail(s), ")") > 0
            THEN ReSubAddress(SubSeq(s, Find(Tail(s), ")") + 2, Len(s)))
    ELSE IF Head(s) \in {"n", "N"} /\ Len(s) >= 2 /\ s[2] \in {"°", "º"}
            THEN ReSubAddress(SubSeq(s, 3, Len(s)))
    ELSE <<Head(s)>> \o ReSubAddress(Tail(s))

\* re.split(r'-|,|[bB][°º]', s)
RECURSIVE ReSplitAddress(_, _)
ReSplitAddress(s, cur) ==
    IF s = <<>> THEN <<cur>>
    ELSE IF Head(s) \in {"-", ","}
            THEN <<cur>> \o ReSplitAddress(Tail(s), <<>>)
    ELSE IF Head(s) \in {"b", "B"} /\ Len(s) >= 2 /\ s[2] \in {"°", "º"}
            THEN <<cur>> \o ReSplitAddress(SubSeq(s, 3, Len(s)), <<>>)
    ELSE ReSplitAddress(Tail(s), Append(cur, Head(s)))

\* str.split(): the words between runs of white space
RECURSIVE Words(_, _)
Words(s, cur) ==
    IF s = <<>> THEN (IF cur = <<>> THEN <<>> ELSE <<cur>>)
    ELSE IF Head(s) \in Whitespace
            THEN (IF cur = <<>> THEN <<>> ELSE <<cur>>) \o Words(Tail(s), <<>>)
    ELSE Words(Tail(s), Append(cur, Head(s)))

\* ' '.join(part.strip().split()) for part in ... if part
RECURSIVE AddressParts(_)
AddressParts(raw) ==
    IF raw = <<>> THEN <<>>
    ELSE IF Head(raw) = <<>> THEN AddressParts(Tail(raw))
    ELSE <<Join(Words(Strip(Head(raw)), <<>>), <<" ">>)>> \o AddressParts(Tail(raw))

\* re.search(r'^(.+?)\s+([0-9]+)$', part) on a part whose words one space
\* separates: the name is what comes before the last word, the number the
\* last word, when that word is decimal digits and not the only one
AddressMatch(part) ==
    LET words == Words(part, <<>>)
    IN  IF Len(words) >= 2 /\ IsDigit(words[Len(words)])
           THEN [matched |-> TRUE,
                 name |-> Join(SubSeq(words, 1, Len(words) - 1), <<" ">>),
                 num_str |-> words[Len(words)]]
           ELSE [matched |-> FALSE, name |-> <<>>, num_str |-> <<>>]

\* the loop over the parts: the first part with a street number decides
RECURSIVE AddressLoop(_)
AddressLoop(parts) ==
    IF parts = <<>> THEN Returned(PNone)
    ELSE LET match == AddressMatch(Head(parts))
         IN  IF match.matched
                THEN IF PyInt(match.num_str) > 0
                        THEN Returned(PTuple(PStr(match.name), PNum(PyInt(match.num_str))))
                        ELSE Raised("ValueError")
                ELSE AddressLoop(Tail(parts))

\* AddressParameter._parse_value
_parse_value_Address(val) ==
    IF Falsy(val) THEN Raised("ValueError")
    ELSE IF val[1] # "str" THEN Raised("AttributeError")
    ELSE LET parts == AddressParts(ReSplitAddress(
                          ReSubAddress(StripChars(val[2], {"'", "\"", " "})), <<>>))
             address == AddressLoop(parts)
         IN  IF address.raised # "no" \/ address.value[1] # "None" THEN address
             ELSE IF parts # <<>> /\ parts[1] # <<>>
                     THEN Returned(PTuple(PStr(parts[1]), PNone))
             ELSE Raised("ParameterValueError")

\* the key of `ids` for an entity type
IdsKey(entity) ==
    CASE entity = N_STATE -> STATES
      [] entity = DEPT -> DEPARTMENTS
      [] entity = MUN -> MUNICIPALITIES

\* Parameter._check_value_in_choices, and FieldListParameter's own
_check_value_in_choices(param, val) ==
    IF param.class = "FieldList"
       THEN IF val[2] \ param.complete # {} THEN Raised("InvalidChoiceException")
                                            ELSE Returned(val)
       ELSE IF \A choice \in param.choices : choice[1] # val[1] \/ choice[2] # val[2]
               THEN Raised("InvalidChoiceException")
               ELSE Returned(val)

RECURSIVE get_value(_, _)
RECURSIVE _parse_value(_, _)
RECURSIVE IntersectionLoop(_, _, _)

\* Parameter.get_value
get_value(param, val) ==
    IF val[1] = "None"
       THEN IF param.required THEN Raised("ParameterRequiredException")
                              ELSE Returned(param.default)
       ELSE LET parsed == _parse_value(param, val)
            IN  IF parsed.raised # "no" THEN parsed
                ELSE IF param.choices # {}
                        THEN _check_value_in_choices(param, parsed.value)
                ELSE parsed

\* StrOrIdParameter._parse_value
_parse_value_StrOrId(param, val) ==
    IF val[1] # "str" THEN Raised("AttributeError")
    ELSE IF IsDigit(val[2]) THEN get_value(param.id_param, val)
    ELSE get_value(param.str_param, val)

\* the loop of IntersectionParameter._parse_value over the parts
IntersectionLoop(param, parts, ids) ==
    IF parts = <<>>
       THEN Returned(PDict(IF \E key \in DOMAIN ids : ids[key] # {} THEN ids ELSE <<>>))
    ELSE LET sections == StrippedParts(Head(parts), ":")
             entity == sections[1]
             entries == SubSeq(sections, 2, Len(sections))
             got == [k \in DOMAIN entries |->
                        get_value(param.id_params[entity], PStr(entries[k]))]
             key == IdsKey(entity)
             new == {got[k].value : k \in DOMAIN got}
         IN  IF Len(sections) < 2 THEN Raised("ParameterValueError")
             ELSE IF entity \notin DOMAIN param.id_params
                     THEN Raised("ParameterValueError")
             ELSE IF \E k \in DOMAIN got : got[k].raised # "no"
                     THEN Raised("ValueError")
             ELSE IntersectionLoop(param, Tail(parts),
                      IF key \in DOMAIN ids THEN [ids EXCEPT ![key] = @ \cup new]
                                            ELSE ids @@ (key :> new))

\* IntersectionParameter._parse_value
_parse_value_Intersection(param, val) ==
    IF Falsy(val) THEN Raised("ValueError")
    ELSE IF val[1] # "str" THEN Raised("AttributeError")
    ELSE IntersectionLoop(param, StrippedParts(val[2], ","), <<>>)

\* _parse_value of the class of the parameter
_parse_value(param, val) ==
    CASE param.class = "Str" -> _parse_value_Str(val)
      [] param.class = "Id" -> _parse_value_Id(param, val)
      [] param.class = "StrOrId" -> _parse_value_StrOrId(param, val)
      [] param.class = "Bool" -> _parse_value_Bool(val)
      [] param.class = "FieldList" -> _parse_value_FieldList(param, val)
      [] param.class = "Int" -> _parse_value_Int(param, val)
      [] param.class = "Float" -> _parse_value_Float(val)
      [] param.class = "Address" -> _parse_value_Address(val)
      [] param.class = "Intersection" -> _parse_value_Intersection(param, val)

\* ------------------------------------------------------- EndpointParameters
\* IntSetSumValidator.validate_values: ValueError when the sum is too large
IntSetSumValidator(upper_limit, values) ==
    LET RECURSIVE Sum(_)
        Sum(vs) == IF vs = <<>> THEN 0 ELSE Head(vs)[2] + Sum(Tail(vs))
    IN  IF Sum(values) > upper_limit THEN Raised("ValueError") ELSE Returned(PNone)

\* one entry of a dict of parameters; the dicts keep the order of their keys
Entry(name, param) == [name |-> name, param |-> param]

\* EndpointParameters.__init__ and with_cross_validator:
\* _get_qs_params = {**get_qs_params, **shared_params},
\* _post_body_params = shared_params
EndpointParameters(shared_params, get_qs_params, cross_validators) ==
    [get_qs_params |-> get_qs_params \o shared_params,
     post_body_params |-> shared_params,
     cross_validators |-> cross_validators]

JSON == <<"json">>
CSV == <<"csv">>
GEOJSON == <<"geojson">>

\* with_cross_validator([N.MAX, N.OFFSET], IntSetSumValidator(MAX_RESULT_WINDOW))
MaxOffsetValidator == <<[param_names |-> <<MAX, OFFSET>>, upper_limit |-> MAX_RESULT_WINDOW]>>

FormatParameter(choices) == StrParameter(PStr(JSON), {PStr(c) : c \in choices})

\* the parameters every search endpoint ends with
Paging(default_max) ==
    <<Entry(MAX, IntParameter(default_max, PNum(1), PNum(MAX_RESULT_LEN))),
      Entry(OFFSET, IntParameter(0, PNum(0), PNum(MAX_RESULT_WINDOW))),
      Entry(EXACT, BoolParameter)>>

PARAMS_COUNTRIES ==
    EndpointParameters(
        <<Entry(NAME, StrParameter(PNone, {})),
          Entry(ORDER, StrParameter(PNone, {PStr(NAME)})),
          Entry(FLATTEN, BoolParameter),
          Entry(FIELDS, FieldListParameter({NAME}, {C_LAT, C_LON}, {SOURCE}))>>
        \o Paging(10),
        <<Entry(FORMAT, FormatParameter({JSON, CSV, GEOJSON}))>>,
        MaxOffsetValidator)

PARAMS_STATES ==
    EndpointParameters(
        <<Entry(ID, IdParameter(STATE_ID_LEN)),
          Entry(NAME, StrParameter(PNone, {})),
          Entry(INTERSECTION, IntersectionParameter({DEPT, MUN})),
          Entry(ORDER, StrParameter(PNone, {PStr(ID), PStr(NAME)})),
          Entry(FLATTEN, BoolParameter),
          Entry(FIELDS, FieldListParameter({ID, NAME}, {C_LAT, C_LON}, {SOURCE}))>>
        \o Paging(24),
        <<Entry(FORMAT, FormatParameter({JSON, CSV, GEOJSON}))>>,
        MaxOffsetValidator)

PARAMS_DEPARTMENTS ==
    EndpointParameters(
        <<Entry(ID, IdParameter(DEPT_ID_LEN)),
          Entry(NAME, StrParameter(PNone, {})),
          Entry(INTERSECTION, IntersectionParameter({N_STATE, MUN})),
          Entry(N_STATE, StrOrIdParameter(STATE_ID_LEN)),
          Entry(ORDER, StrParameter(PNone, {PStr(ID), PStr(NAME)})),
          Entry(FLATTEN, BoolParameter),
          Entry(FIELDS, FieldListParameter({ID, NAME},
                                           {C_LAT, C_LON, STATE_ID, STATE_NAME},
                                           {SOURCE, STATE_INTERSECTION}))>>
        \o Paging(10),
        <<Entry(FORMAT, FormatParameter({JSON, CSV, GEOJSON}))>>,
        MaxOffsetValidator)

PARAMS_MUNICIPALITIES ==
    EndpointParameters(
        <<Entry(ID, IdParameter(MUNI_ID_LEN)),
          Entry(NAME, StrParameter(PNone, {})),
          Entry(INTERSECTION, IntersectionParameter({DEPT, N_STATE})),
          Entry(N_STATE, StrOrIdParameter(STATE_ID_LEN)),
          Entry(ORDER, StrParameter(PNone, {PStr(ID), PStr(NAME)})),
          Entry(FLATTEN, BoolParameter),
          Entry(FIELDS, FieldListParameter({ID, NAME},
                                           {C_LAT, C_LON, STATE_ID, STATE_NAME, DEPT_ID},
                                           {SOURCE, STATE_INTERSECTION}))>>
        \o Paging(10),
        <<Entry(FORMAT, FormatParameter({JSON, CSV, GEOJSON}))>>,
        MaxOffsetValidator)

PARAMS_LOCALITIES ==
    EndpointParameters(
        <<Entry(ID, IdParameter(LOCALITY_ID_LEN)),
          Entry(NAME, StrParameter(PNone, {})),
          Entry(N_STATE, StrOrIdParameter(STATE_ID_LEN)),
          Entry(DEPT, StrOrIdParameter(DEPT_ID_LEN)),
          Entry(MUN, StrOrIdParameter(MUNI_ID_LEN)),
          Entry(ORDER, StrParameter(PNone, {PStr(ID), PStr(NAME)})),
          Entry(FLATTEN, BoolParameter),
          Entry(FIELDS, FieldListParameter({ID, NAME},
                                           {C_LAT, C_LON, STATE_ID, STATE_NAME, DEPT_ID,
                                            DEPT_NAME, MUN_ID, MUN_NAME, LOCALITY_TYPE},
                                           {SOURCE}))>>
        \o Paging(10),
        <<Entry(FORMAT, FormatParameter({JSON, CSV, GEOJSON}))>>,
        MaxOffsetValidator)

PARAMS_ADDRESSES ==
    EndpointParameters(
        <<Entry(ADDRESS, AddressParameter),
          Entry(ROAD_TYPE, StrParameter(PNone, {})),
          Entry(N_STATE, StrOrIdParameter(STATE_ID_LEN)),
          Entry(DEPT, StrOrIdParameter(DEPT_ID_LEN)),
          Entry(ORDER, StrParameter(PNone, {PStr(ID), PStr(NAME)})),
          Entry(FLATTEN, BoolParameter),
          Entry(FIELDS, FieldListParameter({ID, NAME, DOOR_NUM},
                                           {STATE_ID, STATE_NAME, DEPT_ID, DEPT_NAME,
                                            ROAD_TYPE, FULL_NAME, LOCATION_LAT,
                                            LOCATION_LON},
                                           {SOURCE}))>>
        \o Paging(10),
        <<Entry(FORMAT, FormatParameter({JSON, CSV, GEOJSON}))>>,
        MaxOffsetValidator)

PARAMS_STREETS ==
    EndpointParameters(
        <<Entry(ID, IdParameter(STREET_ID_LEN)),
          Entry(NAME, StrParameter(PNone, {})),
          Entry(ROAD_TYPE, StrParameter(PNone, {})),
          Entry(N_STATE, StrOrIdParameter(STATE_ID_LEN)),
          Entry(DEPT, StrOrIdParameter(DEPT_ID_LEN)),
          Entry(ORDER, StrParameter(PNone, {PStr(ID), PStr(NAME)})),
          Entry(FLATTEN, BoolParameter),
          Entry(FIELDS, FieldListParameter({ID, NAME},
                                           {START_R, START_L, END_R, END_L, STATE_ID,
                                            STATE_NAME, DEPT_ID, DEPT_NAME, FULL_NAME,
                                            ROAD_TYPE},
                                           {SOURCE}))>>
        \o Paging(10),
        <<Entry(FORMAT, FormatParameter({JSON, CSV}))>>,
        MaxOffsetValidator)

PARAMS_PLACE ==
    EndpointParameters(
        <<Entry(LAT, FloatParameter(TRUE)),
          Entry(LON, FloatParameter(TRUE)),
          Entry(FLATTEN, BoolParameter),
          Entry(FIELDS, FieldListParameter({STATE_ID, STATE_NAME, LAT, LON},
                                           {DEPT_ID, DEPT_NAME, MUN_ID, MUN_NAME},
                                           {SOURCE}))>>,
        <<Entry(FORMAT, FormatParameter({JSON, GEOJSON}))>>,
        <<>>)

Endpoints ==
    {"paises", "provincias", "departamentos", "municipios", "localidades",
     "direcciones", "calles", "ubicacion"}

\* the EndpointParameters object of an endpoint
PARAMS(endpoint) ==
    CASE endpoint = "paises" -> PARAMS_COUNTRIES
      [] endpoint = "provincias" -> PARAMS_STATES
      [] endpoint = "departamentos" -> PARAMS_DEPARTMENTS
      [] endpoint = "municipios" -> PARAMS_MUNICIPALITIES
      [] endpoint = "localidades" -> PARAMS_LOCALITIES
      [] endpoint = "direcciones" -> PARAMS_ADDRESSES
      [] endpoint = "calles" -> PARAMS_STREETS
      [] endpoint = "ubicacion" -> PARAMS_PLACE

\* ParamError(error_type, message, source, help), its texts left aside
ParamError(error_type, source) == [error_type |-> error_type, source |-> source]

\* raise ParameterParsingException(errors)
RaisedParsing(errors) ==
    [raised |-> "ParameterParsingException", value |-> PNone, errors |-> errors]

\* params.keys()
Keys(params) == {params[k].name : k \in DOMAIN params}

\* received.get(param_name): the first value received under the name
Get(received, param_name) ==
    IF param_name \in DOMAIN received.items THEN received.items[param_name][1] ELSE PNone

\* what the try statement of the loop makes of the outcome `got` of
\* get_value: an entry of `parsed`, an entry of `errors`, or an exception
\* that no except clause catches
ParseOutcome(got, from_source) ==
    CASE got.raised = "no" -> [kind |-> "parsed", value |-> got.value]
      [] got.raised = "ParameterRequiredException" ->
            [kind |-> "error", error |-> ParamError("PARAM_REQUIRED", from_source)]
      [] got.raised \in {"ValueError", "ParameterValueError"} ->
            [kind |-> "error", error |-> ParamError("VALUE_ERROR", from_source)]
      [] got.raised = "InvalidChoiceException" ->
            [kind |-> "error", error |-> ParamError("INVALID_CHOICE", from_source)]
      [] OTHER -> [kind |-> "uncaught", exception |-> got.raised]

\* the body of `for param_name, param in params.items()` for one parameter:
\* a repeated name, or get_value on what was received under the name
ParseOne(entry, received, from_source) ==
    IF /\ received.is_multi_dict
       /\ entry.name \in DOMAIN received.items
       /\ Len(received.items[entry.name]) > 1
       THEN [kind |-> "error", error |-> ParamError("REPEATED", from_source)]
       ELSE ParseOutcome(get_value(entry.param, Get(received, entry.name)), from_source)

\* for param_name in received: if param_name not in params
unknown_names(params, received) == DOMAIN received.items \ Keys(params)

\* EndpointParameters.cross_validate_params: the first validator that fails
\* gives each of its parameters an INVALID_SET error
RECURSIVE cross_validate_params(_, _)
cross_validate_params(cross_validators, parsed) ==
    IF cross_validators = <<>> THEN Returned(PDict(parsed))
    ELSE LET param_names == Head(cross_validators).param_names
             values == [k \in DOMAIN param_names |-> parsed[param_names[k]]]
         IN  IF IntSetSumValidator(Head(cross_validators).upper_limit, values).raised # "no"
                THEN RaisedParsing([name \in Range(param_names) |->
                                       ParamError("INVALID_SET", name)])
                ELSE cross_validate_params(Tail(cross_validators), parsed)

\* parse_params_dict after the loop over the declared parameters, `one`
\* holding the outcome of each round: an exception the loop does not catch
\* leaves with the first one; otherwise the unknown names are added to the
\* errors, and the errors raised or the parsed values cross-validated
Collect(endpoint, params, received, from_source, one) ==
    LET uncaught == {k \in DOMAIN params : one[k].kind = "uncaught"}
        first == CHOOSE k \in uncaught : \A j \in uncaught : k <= j
        at(name) == CHOOSE k \in DOMAIN params : params[k].name = name
        failed == {name \in Keys(params) : one[at(name)].kind = "error"}
        unknown == unknown_names(params, received)
        errors == [name \in failed \cup unknown |->
                      IF name \in unknown THEN ParamError("UNKNOWN_PARAM", from_source)
                                          ELSE one[at(name)].error]
        parsed == [name \in Keys(params) \ failed |-> one[at(name)].value]
    IN  IF uncaught # {} THEN Raised(one[first].exception)
        ELSE IF DOMAIN errors # {} THEN RaisedParsing(errors)
        ELSE cross_validate_params(endpoint.cross_validators, parsed)

\* EndpointParameters.parse_params_dict
parse_params_dict(endpoint, params, received, from_source) ==
    Collect(endpoint, params, received, from_source,
            [k \in DOMAIN params |-> ParseOne(params[k], received, from_source)])

\* ----------------------------------------------- parse_params_dict on its own
\* number of names one request carries
MaxReceived == 2

FOO == <<"foo">>

\* a string of n digits
Ones(n) == [k \in 1..n |-> "1"]

\* strings a request may give a parameter: the empty string, a word that
\* is no number, and values the parameter's class is written for
Strings(param) ==
    {<<>>, FOO} \cup
    CASE param.class = "Str" -> {NAME, JSON}
      [] param.class = "Id" -> {Ones(1), Ones(param.length)}
      [] param.class = "StrOrId" -> {Ones(1), Ones(param.id_param.length)}
      [] param.class = "Bool" -> {}
      [] param.class = "FieldList" -> {BASIC, ID \o <<",", " ">> \o NAME}
      [] param.class = "Int" -> {Ones(1), <<"-", "1">>}
      [] param.class = "Float" -> {<<"1", ".", "1">>}
      [] param.class = "Address" -> {FOO \o <<" ", "1">>, <<",">>}
      [] param.class = "Intersection" ->
            {e \o <<":">> \o Ones(param.id_params[e].length) : e \in DOMAIN param.id_params}

\* names a request may carry: the declared ones and two that no endpoint
\* declares
Unknown == {FOO, <<"bar">>}

\* what a query string may carry under a name: one value, or the name twice
QueryValues(params, name) ==
    IF name \in Unknown THEN {<<PStr(FOO)>>, <<PStr(FOO), PStr(FOO)>>}
    ELSE LET param == params[CHOOSE k \in DOMAIN params : params[k].name = name].param
         IN  {<<PStr(s)>> : s \in Strings(param)} \cup {<<PStr(FOO), PStr(FOO)>>}

\* what an entry of a JSON body may carry under a name: a string or a number
BodyValues(params, name) ==
    IF name \in Unknown THEN {<<PStr(FOO)>>, <<PNum(5)>>}
    ELSE LET param == params[CHOOSE k \in DOMAIN params : params[k].name = name].param
         IN  {<<PStr(s)>> : s \in Strings(param)} \cup {<<PNum(5)>>}

\* the dicts of at most `size` of the names
RECURSIVE DictsOf(_, _, _)
DictsOf(names, Values(_), size) ==
    IF size = 0 THEN {<<>>}
    ELSE LET smaller == DictsOf(names, Values, size - 1)
         IN  smaller \cup
             UNION {{items @@ (n :> v) : v \in Values(n)} :
                    <<items, n>> \in {p \in smaller \X names : p[2] \notin DOMAIN p[1]}}

\* the dicts of at most MaxReceived names
Dicts(names, Values(_)) == DictsOf(names, Values, MaxReceived)

\* the requests of an endpoint: parse_get_params(request.args) and, for
\* each entry of the list in the body, parse_post_params
PrmInputs(endpoint) ==
    LET get == PARAMS(endpoint).get_qs_params
        post == PARAMS(endpoint).post_body_params
        QV(n) == QueryValues(get, n)
        BV(n) == BodyValues(post, n)
    IN  {[stage |-> "received", endpoint |-> endpoint, from_source |-> "querystring",
          received |-> [is_multi_dict |-> TRUE, items |-> items],
          outcome |-> Returned(PNone)] :
            items \in Dicts(Keys(get) \cup Unknown, QV)}
        \cup
        {[stage |-> "received", endpoint |-> endpoint, from_source |-> "body",
          received |-> [is_multi_dict |-> FALSE, items |-> items],
          outcome |-> Returned(PNone)] :
            items \in Dicts(Keys(post) \cup Unknown, BV)}

PrmInit ==
    /\ Constructed
    /\ gen = NoGen
    /\ syn = NoSyn
    /\ dl = NoDl
    /\ \E endpoint \in Endpoints : prm \in PrmInputs(endpoint)
    /\ nm = NoNm

\* parse_get_params: parse_params_dict(self._get_qs_params, qs_params,
\* 'querystring')
ParseGetParams ==
    /\ prm.stage = "received"
    /\ prm.from_source = "querystring"
    /\ prm' = [prm EXCEPT !.stage = "parsed",
                          !.outcome = parse_params_dict(PARAMS(prm.endpoint),
                                          PARAMS(prm.endpoint).get_qs_params,
                                          prm.received, "querystring")]
    /\ UNCHANGED <<es_indices, es_aliases, backups, files_cache, log, sent, run, pc,
                   loc, pre, calls, faults, gen, syn, dl, nm>>

\* parse_post_params, for one entry of the list in the body:
\* parse_params_dict(self._post_body_params, param_dict, 'body')
ParsePostEntry ==
    /\ prm.stage = "received"
    /\ prm.from_source = "body"
    /\ prm' = [prm EXCEPT !.stage = "parsed",
                          !.outcome = parse_params_dict(PARAMS(prm.endpoint),
                                          PARAMS(prm.endpoint).post_body_params,
                                          prm.received, "body")]
    /\ UNCHANGED <<es_indices, es_aliases, backups, files_cache, log, sent, run, pc,
                   loc, pre, calls, faults, gen, syn, dl, nm>>

PrmNext == ParseGetParams \/ ParsePostEntry

SpecParams == PrmInit /\ [][PrmNext]_vars

\* ------------------------------------- FieldListParameter.get_value on its own
\* number of fields one list asks for, the explicit lists of a whole set aside
MaxFields == 2

\* the FieldListParameter of an endpoint
FieldsParameter(endpoint) ==
    LET params == PARAMS(endpoint).get_qs_params
    IN  params[CHOOSE k \in DOMAIN params : params[k].name = FIELDS].param

\* the elements of a set, one after the other
RECURSIVE SeqOf(_)
SeqOf(S) ==
    IF S = {} THEN <<>>
    ELSE LET x == CHOOSE x \in S : TRUE IN <<x>> \o SeqOf(S \ {x})

Reverse(s) == [k \in DOMAIN s |-> s[Len(s) + 1 - k]]

\* the separators of a list: a comma, with or without a space after it
Separators == {<<",">>, <<",", " ">>}

\* the comma-separated lists of all the fields of a set, in two orders
ExplicitLists(fields) ==
    {Join(order, sep) : order \in {SeqOf(fields), Reverse(SeqOf(fields))},
                        sep \in Separators}

\* the proper prefixes of a field: 'altura' and 'altura.fin' of
\* 'altura.fin.derecha'
Prefixes(field) ==
    LET parts == Split(field, ".")
    IN  {Join(SubSeq(parts, 1, n), <<".">>) : n \in 1..(Len(parts) - 1)}

\* what one part of a list may be: a field of the parameter, a prefix of
\* one, the name of a set, a name that is no field, or nothing
FieldParts(param) ==
    param.complete \cup UNION {Prefixes(f) : f \in param.complete}
    \cup {BASIC, STANDARD, COMPLETE, FOO, <<>>}

FieldsInit ==
    /\ Constructed
    /\ gen = NoGen
    /\ syn = NoSyn
    /\ dl = NoDl
    /\ nm = NoNm
    /\ \E endpoint \in Endpoints :
          LET param == FieldsParameter(endpoint)
              asked == FieldParts(param)
          IN  \/ \E n \in 1..MaxFields, sep \in Separators :
                    \E parts \in [1..n -> asked] :
                        prm = [stage |-> "fields", endpoint |-> endpoint,
                               val |-> Join(parts, sep), outcome |-> Returned(PNone)]
              \/ \E name \in {"basic", "standard", "complete"} :
                    \E val \in ExplicitLists(param[name]) :
                        prm = [stage |-> "fields", endpoint |-> endpoint,
                               val |-> val, outcome |-> Returned(PNone)]

\* FieldListParameter.get_value(val) for the value of 'campos'
ParseFields ==
    /\ prm.stage = "fields"
    /\ prm' = [prm EXCEPT !.stage = "fields-parsed",
                          !.outcome = get_value(FieldsParameter(prm.endpoint),
                                                PStr(prm.val))]
    /\ UNCHANGED <<es_indices, es_aliases, backups, files_cache, log, sent, run, pc,
                   loc, pre, calls, faults, gen, syn, dl, nm>>

FieldsNext == ParseFields

SpecFields == FieldsInit /\ [][FieldsNext]_vars

\* =================================================================== claims
\* the indices the alias of the current call resolved to when the call began
OldTargets ==
    IF pre.i \in DOMAIN indices
       THEN AliasTargets(pre.es_aliases, indices[pre.i].alias)
       ELSE {}

\* the indices the alias of the current call resolves to now
NowTargets ==
    IF pre.i \in DOMAIN indices
       THEN AliasTargets(es_aliases, indices[pre.i].alias)
       ELSE {}

\* the current call has returned with ok = True
Succeeded == pre.ended = "returned" /\ loc.ok

\* C1: after a create_or_reindex call that ends in success, the alias resolves
\* to exactly one physical index, the newly created candidate, and the index
\* that was aliased before the call no longer exists in the engine.
C1_SuccessLeavesOnlyNewIndex ==
    Succeeded =>
        /\ NowTargets = {loc.new_index}
        /\ loc.new_index \in es_indices \ pre.es_indices
        /\ OldTargets \cap es_indices = {}

C1_Witness == Succeeded /\ OldTargets # {} /\ NowTargets = {loc.new_index}

\* the entries logged for alias updates
AliasRequests == {k \in DOMAIN log : log[k].msg = "update_aliases"}

\* every update_aliases request is [remove old (only with an old index), add
\* new], in that order, for one alias
C2_RequestShape ==
    /\ \A k \in AliasRequests :
          LET ops == log[k].arg
          IN  /\ Len(ops) \in {1, 2}
              /\ ops[Len(ops)].op = "add"
              /\ Len(ops) = 2 => ops[1].op = "remove" /\ ops[1].alias = ops[2].alias
    /\ (pc \in {"delete", "return"} /\ AliasRequests # {} /\ Len(log) \in AliasRequests) =>
          LET ops == log[Len(log)].arg
          IN  /\ ops[Len(ops)].index = loc.new_index
              /\ Len(ops) = 2 <=> OldTargets # {}
              /\ Len(ops) = 2 => ops[1].index \in OldTargets

\* an alias resolves to at most one index
C2_AtMostOneTarget == \A a \in Aliases : Cardinality(AliasTargets(es_aliases, a)) <= 1

\* C2: the alias swap is one update_aliases request whose actions are, in
\* order, the removal of the alias from the old index (only when an old index
\* exists) and its addition to the new index; in every state the alias
\* resolves to at most one index, and once it resolves to an index it never
\* again resolves to none.
C2_AliasSwapAtomic ==
    /\ [](C2_RequestShape /\ C2_AtMostOneTarget)
    /\ [][\A a \in Aliases :
            AliasTargets(es_aliases, a) # {} => AliasTargets(es_aliases', a) # {}]_vars

C2_Witness ==
    /\ pc = "delete"
    /\ OldTargets # {}
    /\ NowTargets = {loc.new_index}
    /\ loc.new_index \notin OldTargets

\* the major segment of a dotted version: the characters before the first "."
MajorOf(v) ==
    LET k == CHOOSE j \in 1..(Len(v) + 1) :
                /\ j = Len(v) + 1 \/ v[j] = "."
                /\ \A m \in 1..(j - 1) : v[m] # "."
    IN  SubSeq(v, 1, k - 1)

\* d is a dataset whose major version is not that of FILE_VERSION
Incompatible(d) == d.kind = "json" /\ MajorOf(d.version) # MajorOf(FILE_VERSION)

Compatible(d) == d.kind = "json" /\ MajorOf(d.version) = MajorOf(FILE_VERSION)

\* position of the last separator among the first k entries of the log, 0 if
\* there is none
RECURSIVE SepUpTo(_)
SepUpTo(k) ==
    IF k = 0 THEN 0
    ELSE IF log[k].msg = "separator" THEN k
    ELSE SepUpTo(k - 1)

\* position in the log of the separator that opens the current call
LastSep == SepUpTo(Len(log))

\* entries logged by the current call
CallLog == LET first == LastSep + 1 IN first..Len(log)

\* number of times the current call fell back to the backup source
NRetry == Cardinality({k \in CallLog : log[k].msg = "retry_with_backup"})

\* C3: for every primary dataset whose major version differs from that of
\* FILE_VERSION, create_or_reindex ends in failure, forced or not, whatever
\* the backup holds.
C3_IncompatiblePrimaryFails ==
    (pre.ended = "returned" /\ Incompatible(pre.primary)) => ~loc.ok

\* C4: a version-incompatible primary dataset never triggers the retry with
\* the backup source: no second attempt is made and the backup is not read.
C4_NoRetryAfterVersionFailure ==
    Incompatible(pre.primary) => (loc.attempt <= 1 /\ NRetry = 0)

\* C5: no index is created and no document is sent to the engine from a
\* dataset whose major version differs from the configured one: creation and
\* bulk load happen only with a dataset that passed the version check,
\* whether it came from the primary or the backup source.
C5_OnlyCompatibleDataLoaded ==
    /\ pc \in {"create", "insert", "swap", "delete"} => Compatible(loc.data)
    /\ (pre.i \in DOMAIN indices /\ es_indices \ pre.es_indices # {}) => Compatible(loc.data)
    /\ pre.operations # <<>> =>
          /\ Compatible(loc.data)
          /\ Len(pre.operations) = Len(loc.data.datos)
          /\ \A k \in DOMAIN pre.operations :
                \A f \in DOMAIN pre.operations[k]._source :
                    /\ f \in DOMAIN loc.data.datos[k]
                    /\ pre.operations[k]._source[f] = loc.data.datos[k][f]

C5_Witness == pc = "swap" /\ pre.operations # <<>> /\ loc.attempt = 2

\* C6: a forced=false call that finds an aliased index with timestamp T_old
\* and a dataset with timestamp T_new <= T_old is a skip: no index is
\* created or deleted, the alias and the backup are unchanged.
C6_StaleDataIsSkipped ==
    \A old \in OldTargets :
        (/\ ~run.forced
         /\ pre.primary.kind = "json"
         /\ pre.primary.timestamp <= NameTimestamp(old))
        => /\ es_indices = pre.es_indices
           /\ es_aliases = pre.es_aliases
           /\ backups = pre.backups
           /\ ~loc.ok

C6_Witness ==
    /\ pre.ended = "returned"
    /\ ~run.forced
    /\ Compatible(pre.primary)
    /\ \E old \in OldTargets : pre.primary.timestamp = NameTimestamp(old)

\* C7: in a run with forced=false the timestamp in the name of the index an
\* alias resolves to never decreases, and it strictly increases whenever the
\* alias moves to another index.
C7_MonotonicFreshness ==
    /\ [][~run.forced =>
            \A a \in Aliases :
               \A o \in AliasTargets(es_aliases, a), n \in AliasTargets(es_aliases', a) :
                   n = o \/ NameTimestamp(n) > NameTimestamp(o)]_vars
    /\ []((Succeeded /\ ~run.forced) =>
             \A o \in OldTargets : NameTimestamp(loc.new_index) > NameTimestamp(o))

C7_Witness ==
    /\ Succeeded
    /\ ~run.forced
    /\ NowTargets = {loc.new_index}
    /\ \E o \in OldTargets : NameTimestamp(loc.new_index) > NameTimestamp(o)

\* C8: an index is deleted only after the alias has been repointed, in the
\* same call, to a newly created index: the deleted index is the one that was
\* aliased when the call began and no alias resolves to it when it is deleted.
C8_DeleteOnlySuperseded ==
    [][\A x \in es_indices \ es_indices' :
         /\ x \in OldTargets
         /\ \A a \in Aliases : x \notin AliasTargets(es_aliases, a)
         /\ NowTargets = {loc.new_index}
         /\ loc.new_index \in es_indices \ pre.es_indices
         /\ \E k \in CallLog : log[k].msg = "update_aliases"]_vars

C8_Witness ==
    /\ pc = "return"
    /\ loc.ok
    /\ loc.old_index \in pre.es_indices \ es_indices

\* the current call raised inside one of the engine calls of steps 5 to 9
RaisedInEngineStep ==
    /\ pre.ended = "raised"
    /\ \E k \in CallLog :
          log[k].msg = "exception" /\ log[k].arg \in {"attempt", "create", "insert", "swap"}

\* the current call read (or took from the cache) its backup location
BackupRead ==
    \E k \in CallLog :
        /\ log[k].msg \in {"read", "cached"}
        /\ log[k].arg = indices[pre.i].backup_filepath

C10_ForcedFallbackSucceeds ==
    (/\ pre.ended = "returned"
     /\ run.forced
     /\ pre.primary.kind = "none"
     /\ loc.attempt = 2
     /\ Compatible(loc.data))
    => /\ loc.ok
       /\ loc.data = pre.backups[indices[pre.i].backup_filepath]
       /\ NowTargets = {loc.new_index}
       /\ NameTimestamp(loc.new_index) = loc.data.timestamp
       /\ loc.new_index \in es_indices \ pre.es_indices

C10_Witness ==
    /\ Succeeded
    /\ run.forced
    /\ pre.primary.kind = "none"
    /\ loc.attempt = 2
    /\ \E old \in OldTargets : loc.data.timestamp <= NameTimestamp(old)

\* the writes of a backup file begun by the current call
BackupWrites == {k \in CallLog : log[k].msg = "write_backup"}

\* the backup location of the index of the current call
BackupPath == indices[pre.i].backup_filepath

\* C11 as stated: when create_or_reindex succeeds by indexing the backup
\* source, no write to the backup file occurs.
C11_NoWriteAfterBackupSuccess ==
    (Succeeded /\ loc.attempt = 2) => BackupWrites = {}

\* C11 amended: when create_or_reindex succeeds by indexing the backup
\* source, the backup file is written again, with the dataset that was read
\* from it, so that its content is what it was before the call; the content
\* of a backup file differs after a call that returned only when the call
\* succeeded from the primary source.
C11_BackupSuccessRewritesSameContent ==
    /\ (Succeeded /\ loc.attempt = 2) =>
          /\ BackupWrites # {}
          /\ BackupPath \in DOMAIN backups
          /\ backups[BackupPath] = loc.data
          /\ backups = pre.backups
    /\ (pre.ended = "returned" /\ backups # pre.backups) =>
          /\ loc.ok
          /\ loc.attempt = 1
          /\ loc.data = pre.primary

C11_Witness == Succeeded /\ loc.attempt = 2 /\ BackupWrites # {}

\* C12: after every successful create_or_reindex of an index that has a
\* backup location, the backup file holds exactly the dataset, with all the
\* fields of its documents, whose documents were loaded into the index the
\* alias now resolves to.
C12_BackupHoldsIndexedDataset ==
    (Succeeded /\ BackupPath # NoPath) =>
        /\ BackupPath \in DOMAIN backups
        /\ backups[BackupPath] = loc.data
        /\ backups[BackupPath] \in Datasets
        /\ NowTargets = {loc.new_index}
        /\ Len(pre.operations) = Len(backups[BackupPath].datos)
        /\ \A k \in DOMAIN pre.operations :
              /\ pre.operations[k]._index = loc.new_index
              /\ \A f \in DOMAIN pre.operations[k]._source :
                    /\ f \in DOMAIN backups[BackupPath].datos[k]
                    /\ pre.operations[k]._source[f] = backups[BackupPath].datos[k][f]

C12_Witness ==
    /\ Succeeded
    /\ BackupPath # NoPath
    /\ BackupPath \notin DOMAIN pre.backups
    /\ backups[BackupPath] = pre.primary

\* the current call raised at the point `where`
RaisedWhere(where) ==
    /\ pre.ended = "raised"
    /\ \E k \in CallLog : log[k].msg = "exception" /\ log[k].arg = where

\* C13 as stated: every call that was skipped, failed or was aborted by an
\* exception leaves every backup file unchanged.
C13_BackupChangesOnlyOnSuccess ==
    (pre.ended \in {"returned", "raised"} /\ backups # pre.backups) => Succeeded

\* C13 amended: a backup file is written only as the last step of a
\* create_or_reindex call of its own index, after the indexing of that call
\* succeeded; a call that is skipped as stale, fails (fetch, version) or is
\* aborted by an exception raised before the backup write leaves every
\* backup file unchanged; an exception raised by the backup write itself
\* leaves the other backup files unchanged and the file of that index either
\* unchanged or cut short.
C13_BackupWrittenOnlyByOwnSuccess ==
    /\ [][backups' # backups =>
            /\ pc = "return" /\ pc' = "loop"
            /\ loc.ok
            /\ self.backup_filepath # NoPath
            /\ \A p \in DOMAIN backups' :
                  p # self.backup_filepath => p \in DOMAIN backups /\ backups'[p] = backups[p]
            /\ backups'[self.backup_filepath] \in {loc.data, Partial}]_vars
    /\ []((pre.ended = "returned" /\ ~loc.ok) => backups = pre.backups)
    /\ []((pre.ended = "raised" /\ ~RaisedWhere("write_backup")) => backups = pre.backups)
    /\ []((pre.ended = "no" /\ pre.i \in DOMAIN indices) => backups = pre.backups)
    /\ []((pre.ended = "returned" /\ loc.ok /\ BackupPath # NoPath) =>
             backups[BackupPath] = loc.data)

C13_Witness ==
    /\ pre.ended = "returned"
    /\ ~loc.ok
    /\ BackupPath \in DOMAIN pre.backups
    /\ backups = pre.backups

\* C14: with forced=true, when the primary attempt and the backup attempt
\* both fail, create_or_reindex logs an error and the update is cancelled: no
\* index has been created or deleted, the alias and the backup files are
\* what they were.
C14_FailedFallbackChangesNothing ==
    (pre.ended = "returned" /\ run.forced /\ loc.attempt = 2 /\ ~loc.ok) =>
        /\ \E k \in CallLog : log[k].level = "ERROR" /\ log[k].msg = "backup_failed"
        /\ es_indices = pre.es_indices
        /\ es_aliases = pre.es_aliases
        /\ backups = pre.backups

C14_Witness ==
    /\ pre.ended = "returned"
    /\ run.forced
    /\ loc.attempt = 2
    /\ ~loc.ok
    /\ OldTargets # {}
    /\ BackupPath \in DOMAIN backups

\* the synonyms location of the index of the current call
SynonymsPath == indices[pre.i].synonyms_filepath

\* the current call tried to read its synonyms and got None
SynonymsUnavailable ==
    \E k \in CallLog :
        /\ log[k].msg = "read"
        /\ log[k].arg = SynonymsPath
        /\ k + 1 \in CallLog
        /\ log[k + 1].msg = "unavailable"

\* C15: when the configured synonyms source cannot be read, the call goes on
\* with an empty synonym list, and what the fetch leaves behind (the list
\* and the cache, on which the rest of the call depends) is what an
\* available but empty synonyms file leaves behind.
C15_MissingSynonymsAreEmpty ==
    /\ (pre.i \in DOMAIN indices /\ loc.attempt >= 1 /\ SynonymsUnavailable) =>
          loc.synonyms = <<>>
    /\ (pc = "synonyms" /\ self.synonyms_filepath # NoPath) =>
          /\ _parse_elasticsearch_synonyms(
                 FetchData(self.synonyms_filepath, files_cache, NoneV))
             = _parse_elasticsearch_synonyms(
                 FetchData(self.synonyms_filepath, files_cache, Txt(<<>>)))
          /\ FetchCache(self.synonyms_filepath, files_cache, NoneV)
             = FetchCache(self.synonyms_filepath, files_cache, Txt(<<>>))

C15_Witness == Succeeded /\ SynonymsUnavailable /\ loc.synonyms = <<>>

\* C16: _fetch_data never raises, whatever location of a catalog index the
\* lifecycle manager passes to it (primary, synonyms or backup location): no
\* call of create_or_reindex is aborted by an exception raised by a fetch.
C16_FetchNeverRaises == ~RaisedWhere("fetch_backup")

\* the reads of location L by this run that returned content (not None)
SuccessfulReads(L) ==
    {k \in DOMAIN log :
        /\ log[k].msg = "read"
        /\ log[k].arg = L
        /\ ~(k + 1 \in DOMAIN log /\ log[k + 1].msg = "unavailable")}

\* the locations the catalog names
Locations ==
    UNION {{indices[k].filepath, indices[k].synonyms_filepath, indices[k].backup_filepath} :
              k \in DOMAIN indices} \ {NoPath}

\* C17: within one run, after a fetch of location L has succeeded, no later
\* fetch of L reads or downloads it again: each location is successfully
\* read at most once per run.
C17_LocationReadOncePerRun ==
    \A L \in Locations : Cardinality(SuccessfulReads(L)) <= 1

\* the summaries logged by the bulk loads of the current call
Summaries == {k \in CallLog : log[k].msg = "summary"}

\* the documents of the current call that the engine rejected
Rejected == {k \in DOMAIN pre.oks : ~pre.oks[k]}

\* C18: when a bulk load of N documents finishes, whatever subset of them the
\* engine rejected, all N documents have been sent and the counters satisfy
\* created + errors = N (created being the accepted ones, errors the
\* rejected ones, each logged with a warning).
C18_BulkCountersAddUp ==
    /\ \A k \in Summaries :
          /\ log[k].arg[2] + log[k].arg[3] = log[k].arg[1]
          /\ log[k].arg[1] = Len(loc.data.datos)
    /\ (pre.i \in DOMAIN indices /\ pc \in {"swap", "delete"}) =>
          /\ Summaries # {}
          /\ Len(pre.operations) = Len(loc.data.datos)
          /\ \A k \in Summaries :
                (\A j \in Summaries : j <= k) =>
                   /\ log[k].arg[3] = Cardinality(Rejected)
                   /\ log[k].arg[2] = Len(loc.data.datos) - Cardinality(Rejected)
                   /\ Cardinality({j \in CallLog : j < k /\ log[j].msg = "doc_error"})
                         >= Cardinality(Rejected)

C18_Witness ==
    /\ pc = "swap"
    /\ Rejected # {}
    /\ Rejected # DOMAIN pre.oks
    /\ \E k \in Summaries : log[k].arg[3] = Cardinality(Rejected)

\* C19: for every document and every configured allowlist, the empty one
\* included, the document sent has exactly the fields that are both in the
\* original document and in the allowlist, with their original values; with
\* no allowlist configured it is sent with all its original fields.
C19_SourceIsIntersection ==
    gen.stage = "yielded" =>
        /\ Len(gen.out) = Len(gen.docs)
        /\ \A k \in DOMAIN gen.docs :
              LET doc  == gen.docs[k]
                  sent_doc == gen.out[k]._source
                  kept == IF gen.includes.given
                             THEN {f \in DOMAIN doc :
                                      \E j \in DOMAIN gen.includes.fields :
                                          gen.includes.fields[j] = f}
                             ELSE DOMAIN doc
              IN  /\ DOMAIN sent_doc = kept
                  /\ \A f \in kept : sent_doc[f] = doc[f]

\* C20: the identifier of the create operation of the document at position i
\* (from 0) is the document's own `id` field when it has one and i
\* otherwise, with and without an allowlist, whatever the allowlist holds.
C20_IdentifierIsOwnIdOrPosition ==
    gen.stage = "yielded" =>
        /\ Len(gen.out) = Len(gen.docs)
        /\ \A k \in DOMAIN gen.docs :
              gen.out[k]._id = IF "id" \in DOMAIN gen.docs[k]
                                  THEN gen.docs[k]["id"]
                                  ELSE k - 1


\* the logical index a physical index name belongs to: the name without its
\* last two parts (uuid prefix and timestamp)
NameAlias(index) ==
    LET parts == Split(index, "-")
        n == Len(parts)
    IN  SubSeq(index, 1, Len(index) - Len(parts[n]) - Len(parts[n - 1]) - 2)

\* the engine, alias and backup state of the logical indices other than the
\* one of the current call is as it was when the call began: every index
\* and alias that came or went is of the call's logical index, and every
\* other backup file is as it was
OthersUntouched ==
    LET own == indices[pre.i]
    IN  /\ \A n \in (es_indices \ pre.es_indices) \cup (pre.es_indices \ es_indices) :
              NameAlias(n) = own.alias
        /\ \A p \in (es_aliases \ pre.es_aliases) \cup (pre.es_aliases \ es_aliases) :
              p[1] = own.alias
        /\ \A f \in (DOMAIN backups \cup DOMAIN pre.backups) \ {own.backup_filepath} :
              /\ f \in DOMAIN backups \cap DOMAIN pre.backups
              /\ backups[f] = pre.backups[f]

\* the aliases create_or_reindex was called for in this run, in call order
Processed ==
    LET seps == SelectSeq(log, LAMBDA e : e.msg = "separator")
    IN  [k \in DOMAIN seps |-> seps[k].arg]

\* the catalog aliases the selector of this run selects, in catalog order
Selected ==
    LET sel == SelectSeq(indices, LAMBDA x : run.name \in {ALL, x.alias})
    IN  [k \in DOMAIN sel |-> sel[k].alias]

\* an exception of a create_or_reindex call was logged in this run
ExceptionLogged == \E k \in DOMAIN log : log[k].msg = "exception"

\* C21: an exception raised while one logical index is processed does not
\* stop the run: the loop goes on with the next catalog entry, a run in which
\* a call raised still ends having processed every selected index, and the
\* call that raised left the engine, alias and backup state of the other
\* logical indices as it found it.
C21_ExceptionDoesNotStopRun ==
    /\ (pre.ended = "raised" /\ pc = "loop") => run.i > pre.i /\ run.i <= Len(indices) + 1
    /\ (pre.ended = "raised" /\ pc = "loop" /\ run.name = ALL) => run.i = pre.i + 1
    /\ (pc = "done" /\ ExceptionLogged) => Processed = Selected
    /\ pre.ended = "raised" => OthersUntouched

\* the first index of the catalog raised and the second is being processed
C21_Witness ==
    /\ pc = "insert"
    /\ run.i = 2
    /\ \E k \in DOMAIN log :
          /\ log[k].msg = "exception"
          /\ k < Len(log)
          /\ log[k + 1] = LogArg("INFO", "separator", indices[2].alias)
    /\ es_indices # {}

\* C22: run_index never lets an exception escape to its caller, whatever
\* fails during the run: the setup of the backups directory, a fetch, an
\* engine call or the summary notification.
C22_NoExceptionEscapes == pc # "escaped"

\* the selected aliases among the first n catalog entries, in catalog order
SelectedUpTo(n) ==
    LET sel == SelectSeq(SubSeq(indices, 1, n), LAMBDA x : run.name \in {ALL, x.alias})
    IN  [k \in DOMAIN sel |-> sel[k].alias]

\* a create_or_reindex call is in progress
InCall == pc \notin {"idle", "loop", "done", "escaped"}

\* C23: run_index calls create_or_reindex once for every selected catalog
\* entry, in catalog order and one call after the other: between two
\* iterations the calls made are exactly those for the selected entries
\* already passed, a call in progress is the last one begun and is the call
\* for the current entry, and at the end of the run the calls are exactly
\* the selected entries (all of them for 'all', the named one otherwise);
\* a run for one name leaves the other logical indices untouched.
C23_EachSelectedIndexOnceInOrder ==
    /\ LET called == Processed
       IN  /\ pc = "loop" => called = SelectedUpTo(run.i - 1)
           /\ InCall =>
                 /\ called = SelectedUpTo(run.i)
                 /\ called[Len(called)] = self.alias
                 /\ pre.i = run.i /\ pre.ended = "no"
           /\ pc = "done" =>
                 /\ called = Selected
                 /\ run.name = ALL => called = [k \in DOMAIN indices |-> indices[k].alias]
                 /\ run.name # ALL => called = <<run.name>>
    /\ (run.name # ALL /\ pre.i \in DOMAIN indices) =>
          /\ indices[pre.i].alias = run.name
          /\ OthersUntouched

\* a run for 'all' has ended after a call for each of the catalog entries
C23_Witness ==
    /\ pc = "done"
    /\ run.name = ALL
    /\ Len(Processed) = Len(indices)
    /\ pre.ended = "returned"

\* what was logged up to and including 'Enviando mail...'
Transcript ==
    LET k == CHOOSE j \in DOMAIN log : log[j].msg = "sending_mail"
    IN  SubSeq(log, 1, k)

\* C24 as stated: every finished run has invoked the notification
\* collaborator exactly once.
C24_NotifiedOnceInEveryRun == pc = "done" => Len(sent) = 1

\* C24: the notification collaborator is invoked only after the catalog loop
\* has finished, at most once per run, and in a finished run exactly once
\* when the mail is enabled in the configuration and not at all otherwise;
\* it is handed the log transcript of the run, the forced flag and the
\* environment label, whether or not some index failed.
C24_NotifiedOnceWhenEnabled ==
    /\ pc \notin {"done", "escaped"} => sent = <<>>
    /\ Len(sent) <= 1
    /\ pc = "done" => Len(sent) = (IF run.mail_enabled THEN 1 ELSE 0)
    /\ sent # <<>> =>
          /\ run.i > Len(indices)
          /\ Processed = Selected
          /\ pre.ended # "no"
          /\ sent[1] = [log |-> Transcript, forced |-> run.forced, env |-> "GEOREF_ENV"]
          /\ Transcript[1] = LogEntry("INFO", "start")

\* a run in which a call raised has ended and the mail was sent
C24_Witness ==
    /\ pc = "done"
    /\ Len(sent) = 1
    /\ ExceptionLogged
    /\ run.mail_enabled

\* the lines of a text: the maximal runs of characters between line ends
\* (a "\r" directly followed by "\n" being one line end), without an empty
\* line after the last line end
TextLines(t) ==
    LET ends == {k \in DOMAIN t : t[k] \in LineEnds /\
                                    ~(t[k] = "\r" /\ k < Len(t) /\ t[k + 1] = "\n")}
        starts == {1} \cup {k + 1 : k \in ends}
        first(k) == CHOOSE j \in starts :
                        Cardinality({i \in starts : i < j}) = k - 1
        n == IF t = <<>> THEN 0
             ELSE IF Len(t) \in ends THEN Cardinality(ends)
             ELSE Cardinality(ends) + 1
        stop(j) == CHOOSE e \in (ends \cup {Len(t) + 1}) :
                       e >= j /\ \A f \in ends : f >= j => e <= f
        line(j) == LET raw == SubSeq(t, j, stop(j) - 1)
                   IN  IF raw # <<>> /\ raw[Len(raw)] = "\r" /\ stop(j) <= Len(t)
                          THEN SubSeq(raw, 1, Len(raw) - 1) ELSE raw
    IN  [k \in 1..n |-> line(first(k))]

\* a line without its leading and trailing whitespace
Trimmed(l) ==
    LET inner == {k \in DOMAIN l : l[k] \notin Whitespace}
    IN  IF inner = {} THEN <<>>
        ELSE SubSeq(l, CHOOSE a \in inner : \A b \in inner : a <= b,
                       CHOOSE a \in inner : \A b \in inner : a >= b)

\* C25: _parse_elasticsearch_synonyms returns the lines of its input, each
\* without its surrounding whitespace, that are then neither empty nor begin
\* with '#', in their order; for None and for the empty text it returns the
\* empty list; and parsing its joined result again returns the same list.
C25_SynonymsAreTrimmedRuleLines ==
    /\ syn.stage \in {"parsed", "reparsed"} =>
          /\ ~Truthy(syn.contents) => syn.out = <<>>
          /\ Truthy(syn.contents) =>
                LET trimmed == [k \in DOMAIN TextLines(syn.contents.text) |->
                                   Trimmed(TextLines(syn.contents.text)[k])]
                IN  syn.out = SelectSeq(trimmed, LAMBDA l : l # <<>> /\ l[1] # "#")
    /\ syn.stage = "reparsed" => syn.again = syn.out

\* a text with a padded rule and a comment line was parsed, and its result
\* parsed again
C25_Witness ==
    /\ syn.stage = "reparsed"
    /\ syn.contents = Txt(<<" ", "a", "\r", "#">>)
    /\ syn.out = << <<"a">> >>

\* the HTTP attempts made so far
Gets == Len(SelectSeq(dl.trace, LAMBDA e : e = "get"))

\* the waits made so far
Sleeps == Len(SelectSeq(dl.trace, LAMBDA e : e = "sleep"))

\* the first attempt that would succeed, or MaxTries + 1
FirstSuccess ==
    LET ok == {k \in DOMAIN dl.world : dl.world[k] = Content}
    IN  IF ok = {} THEN MaxTries + 1 ELSE CHOOSE k \in ok : \A j \in ok : k <= j

\* C26: download(url, tries=n), n >= 1, makes at most n HTTP attempts; it
\* returns the content of the first attempt that succeeds and makes no
\* attempt after it; it waits after each failed attempt except the n-th; and
\* when the n attempts fail it raises the error of the n-th.
C26_DownloadTriesAtMostN ==
    dl.caller = "direct" =>
      /\ Gets <= dl.tries
      /\ \A k \in DOMAIN dl.trace :
            dl.trace[k] = "sleep" => /\ k > 1 /\ dl.trace[k - 1] = "get"
                                     /\ dl.world[Cardinality({j \in 1..k : dl.trace[j] = "get"})] # Content
      /\ dl.stage = "returned" =>
            /\ Gets = FirstSuccess
            /\ dl.result = Content
            /\ Sleeps = Gets - 1
            /\ ~ENABLED Attempt
      /\ dl.stage = "raised" =>
            /\ Gets = dl.tries
            /\ FirstSuccess > dl.tries
            /\ dl.result = dl.world[dl.tries]
            /\ Sleeps = dl.tries - 1
      /\ dl.stage = "try" => Gets = dl.i /\ Sleeps = (IF dl.i = dl.tries THEN dl.i - 1 ELSE dl.i)

\* three tries: two different errors, the second one waited for, then the
\* content
C26_Witness ==
    /\ dl.caller = "direct"
    /\ dl.tries = 3
    /\ dl.stage = "returned"
    /\ dl.trace = <<"get", "sleep", "get", "sleep", "get">>
    /\ dl.world[1] # dl.world[2]

\* C27: a fetch of a remote location retries a failed download attempt: when
\* the first attempt fails and the second would succeed, the fetch yields
\* the content.
C27_FetchRetriesFailedAttempt ==
    (/\ dl.caller = "_fetch_data"
     /\ dl.stage = "fetched"
     /\ dl.world[1] \in Errors
     /\ dl.world[2] = Content) => dl.result = Content

\* the alias of the current call resolved to no index when the call began
FirstCreation == pre.i \in DOMAIN indices /\ OldTargets = {}

\* C28: when the index is created for the first time, forced makes no
\* difference. Without forced, a call whose primary source yields nothing
\* returns a failure and leaves the engine, the aliases and the backups as
\* they were; so does, then, every such call, forced or not.
C28_ForcedIrrelevantOnFirstCreation ==
    (FirstCreation /\ ~Truthy(pre.primary) /\ pre.ended # "no") =>
        /\ pre.ended = "returned"
        /\ ~loc.ok
        /\ es_indices = pre.es_indices
        /\ es_aliases = pre.es_aliases
        /\ backups = pre.backups

\* the indices no alias resolves to
Unaliased == {n \in es_indices : \A p \in es_aliases : p[2] # n}

\* the unaliased indices no call is working on: not the candidate being
\* loaded and not the superseded index about to be deleted
Orphans ==
    {n \in Unaliased : /\ ~(pc \in {"insert", "swap"} /\ n = loc.new_index)
                        /\ ~(pc = "delete" /\ n = loc.old_index)}

\* the current call raised after _create_index and before the end of
\* _update_aliases
InterruptedBeforeSwap == RaisedWhere("insert") \/ RaisedWhere("swap")

\* C29: a call that raises after the candidate index was created and before
\* the alias swap was done leaves the aliases as they were when it began (its
\* alias resolves to the same index, or to none), deletes nothing, writes no
\* backup, and leaves the candidate in the engine without alias; and an
\* index without alias that no call is working on is never deleted nor
\* aliased afterwards.
C29_InterruptedCallLeavesOrphan ==
    /\ [](InterruptedBeforeSwap =>
            /\ NowTargets = OldTargets
            /\ es_aliases = pre.es_aliases
            /\ es_indices = pre.es_indices \cup {loc.new_index}
            /\ loc.new_index \notin pre.es_indices
            /\ loc.new_index \in Orphans
            /\ backups = pre.backups)
    /\ [][Orphans \subseteq Orphans']_vars

\* an update was interrupted while the documents were loaded: the alias
\* still resolves to the old index
C29_Witness ==
    /\ RaisedWhere("insert")
    /\ OldTargets # {}
    /\ NowTargets = OldTargets
    /\ loc.new_index \in Orphans

\* C30: with forced=true and a primary dataset that is there and
\* version-compatible, a call that is not cut short by an exception indexes
\* that dataset: it creates a new index under a name no index had, loads the
\* documents, moves the alias to it and deletes the old index, also when the
\* timestamp of the dataset is equal to or older than that of the old index.
C30_ForcedIgnoresStaleness ==
    (/\ pre.ended = "returned"
     /\ run.forced
     /\ Truthy(pre.primary)
     /\ Compatible(pre.primary))
    => /\ loc.ok
       /\ loc.attempt = 1
       /\ loc.data = pre.primary
       /\ loc.new_index \in es_indices \ pre.es_indices
       /\ loc.new_index \notin OldTargets
       /\ NameTimestamp(loc.new_index) = pre.primary.timestamp
       /\ Len(pre.operations) = Len(pre.primary.datos)
       /\ \A k \in DOMAIN pre.operations : pre.operations[k]._index = loc.new_index
       /\ NowTargets = {loc.new_index}
       /\ OldTargets \cap es_indices = {}

\* a forced call replaced an index by one with the same timestamp
C30_Witness ==
    /\ Succeeded
    /\ run.forced
    /\ loc.attempt = 1
    /\ \E old \in OldTargets :
          /\ NameTimestamp(old) = pre.primary.timestamp
          /\ old # loc.new_index
          /\ old \notin es_indices

\* the dict of parameters the call in `prm` was given
Declared ==
    IF prm.from_source = "querystring" THEN PARAMS(prm.endpoint).get_qs_params
                                       ELSE PARAMS(prm.endpoint).post_body_params

\* the names received that the endpoint does not declare
Undeclared == DOMAIN prm.received.items \ Keys(Declared)

\* C31: a request that carries a name the endpoint does not declare is
\* rejected: parse_params_dict raises ParameterParsingException with an
\* UNKNOWN_PARAM error for that name and returns no parsed values, whatever
\* the declared parameters hold.
C31_UnknownParamRejected ==
    (prm.stage = "parsed" /\ Undeclared # {}) =>
        /\ prm.outcome.raised = "ParameterParsingException"
        /\ \A name \in Undeclared :
              /\ name \in DOMAIN prm.outcome.errors
              /\ prm.outcome.errors[name].error_type = "UNKNOWN_PARAM"

\* the same, for requests whose declared parameters are strings
C31_UnknownParamRejectedStrings ==
    (/\ prm.stage = "parsed"
     /\ Undeclared # {}
     /\ \A name \in DOMAIN prm.received.items \ Undeclared :
           prm.received.items[name][1][1] = "str") =>
        /\ prm.outcome.raised = "ParameterParsingException"
        /\ \A name \in Undeclared :
              /\ name \in DOMAIN prm.outcome.errors
              /\ prm.outcome.errors[name].error_type = "UNKNOWN_PARAM"

\* the declared parameter of a name
ParamOf(name) == Declared[CHOOSE k \in DOMAIN Declared : Declared[k].name = name].param

\* the names of value-typed parameters (every class but BoolParameter)
\* received once, with the empty string
ReceivedEmpty ==
    {name \in (DOMAIN prm.received.items) \ Undeclared :
        /\ ParamOf(name).class # "Bool"
        /\ prm.received.items[name] = <<PStr(<<>>)>>}

\* C32: a value-typed parameter received with the empty string is rejected:
\* get_value raises for it, and parse_params_dict raises
\* ParameterParsingException with a VALUE_ERROR for that parameter, instead
\* of taking the parameter as absent or giving it its default.
C32_EmptyStringRejected ==
    prm.stage = "parsed" =>
        \A name \in ReceivedEmpty :
            /\ get_value(ParamOf(name), PStr(<<>>)).raised = "ValueError"
            /\ prm.outcome.raised = "ParameterParsingException"
            /\ name \in DOMAIN prm.outcome.errors
            /\ prm.outcome.errors[name].error_type = "VALUE_ERROR"

\* the same, for requests whose declared parameters are strings
C32_EmptyStringRejectedStrings ==
    (/\ prm.stage = "parsed"
     /\ \A name \in DOMAIN prm.received.items \ Undeclared :
           prm.received.items[name][1][1] = "str") =>
        \A name \in ReceivedEmpty :
            /\ get_value(ParamOf(name), PStr(<<>>)).raised = "ValueError"
            /\ prm.outcome.raised = "ParameterParsingException"
            /\ name \in DOMAIN prm.outcome.errors
            /\ prm.outcome.errors[name].error_type = "VALUE_ERROR"

\* the set of fields a set name stands for
FieldSet(param, S) ==
    CASE S = BASIC -> param.basic
      [] S = STANDARD -> param.standard
      [] S = COMPLETE -> param.complete

\* C33: for every FieldListParameter and each set name S (basico, estandar,
\* completo), the explicit comma-separated list of the fields of that set
\* parses to the same set of fields as the single value S; every field list
\* that get_value returns holds all the basic fields and only fields of the
\* complete set.
C33_SetNamesAreTheirFields ==
    prm.stage = "fields-parsed" =>
        LET param == FieldsParameter(prm.endpoint)
        IN  /\ \A S \in {BASIC, STANDARD, COMPLETE} :
                  prm.val \in ExplicitLists(FieldSet(param, S)) =>
                      /\ prm.outcome.raised = "no"
                      /\ get_value(param, PStr(S)).raised = "no"
                      /\ prm.outcome.value[2] = get_value(param, PStr(S)).value[2]
                      /\ prm.outcome.value[2] = FieldSet(param, S)
            /\ prm.outcome.raised = "no" =>
                  /\ param.basic \subseteq prm.outcome.value[2]
                  /\ prm.outcome.value[2] \subseteq param.complete

\* the explicit list of the ten standard fields of 'calles' that are not
\* basic, nested ones among them, has been parsed to the standard set
C33_Witness ==
    /\ prm.stage = "fields-parsed"
    /\ prm.endpoint = "calles"
    /\ prm.val \in ExplicitLists(FieldsParameter("calles").standard)
    /\ START_R \in prm.outcome.value[2]
    /\ prm.outcome.value[2] = FieldsParameter("calles").standard
    /\ prm.outcome.value[2] # FieldsParameter("calles").basic

\* the lifecycle step an entry of the log belongs to: 1 FETCH, 2
\* VALIDATE_VERSION, 3 CHECK_STALENESS, 4 CREATE, 5 LOAD, 6 SWAP_ALIAS, 7
\* DELETE_OLD, 8 BACKUP; 0 for the entries that belong to no step
StepRank(msg) ==
    CASE msg \in {"read", "cached", "unavailable"} -> 1
      [] msg \in {"no_data", "data_version", "incompatible_version"} -> 2
      [] msg \in {"skip_stale", "timestamp_check_omitted"} -> 3
      [] msg = "create_index" -> 4
      [] msg \in {"insert", "doc_error", "summary"} -> 5
      [] msg = "update_aliases" -> 6
      [] msg = "delete_index" -> 7
      [] msg \in {"write_backup", "backup_written"} -> 8
      [] OTHER -> 0

\* the steps logged from entry k on are in the order of their ranks; `last`
\* is the rank of the latest step before k, and a fallback to the backup
\* begins the order anew
RECURSIVE StepsOrdered(_, _)
StepsOrdered(k, last) ==
    IF k > Len(log) THEN TRUE
    ELSE IF log[k].msg = "retry_with_backup" THEN StepsOrdered(k + 1, 0)
    ELSE LET rank == StepRank(log[k].msg)
         IN  IF rank = 0 THEN StepsOrdered(k + 1, last)
             ELSE rank >= last /\ StepsOrdered(k + 1, rank)

\* the entries `msg` among the entries `calllog` of the log
Entries(calllog, msg) == {k \in calllog : log[k].msg = msg}

\* C34: in every execution of create_or_reindex the steps occur in the order
\* FETCH, VALIDATE_VERSION, CHECK_STALENESS, CREATE, LOAD, SWAP_ALIAS,
\* DELETE_OLD, BACKUP (anew from FETCH when the call falls back to the
\* backup). The alias is repointed only after the bulk load of the candidate
\* has finished, no alias resolves to the candidate while it is created and
\* loaded, and the backup is written only after the alias was repointed and
\* the index it was taken from, if there was one, deleted.
C34_LifecycleOrder ==
    /\ StepsOrdered(LastSep + 1, 0)
    /\ pc \in {"insert", "swap"} =>
          /\ loc.new_index \in es_indices
          /\ \A p \in es_aliases : p[2] # loc.new_index
    /\ LET calllog == CallLog
           swaps   == Entries(calllog, "update_aliases")
           retries == Entries(calllog, "retry_with_backup")
       IN  /\ \A k \in swaps :
                 \E c \in Entries(calllog, "create_index"),
                    s \in Entries(calllog, "summary") :
                     /\ c < s /\ s < k
                     /\ \A r \in retries : r < c
                     /\ log[k].arg[Len(log[k].arg)].index = log[c].arg
           /\ \A k \in Entries(calllog, "write_backup") :
                 \E s \in swaps :
                     /\ s < k
                     /\ \A r \in retries : r < s
                     /\ Len(log[s].arg) = 2 =>
                           \E d \in Entries(calllog, "delete_index") :
                               /\ s < d /\ d < k
                               /\ log[d].arg = log[s].arg[1].index
                               /\ log[d].arg \notin es_indices

\* a call replaced an aliased index and wrote its backup: all eight steps
\* took place
C34_Witness ==
    /\ Succeeded
    /\ OldTargets # {}
    /\ BackupWrites # {}
    /\ \E k \in CallLog : log[k].msg = "delete_index"

\* the code is sequential and every external call (download, file read or
\* write, engine request, mail) returns or raises: the step the program is at
\* is eventually taken
SpecFair == Spec /\ WF_vars(Next)

\* the calls of create_or_reindex the rest of the loop over the catalog makes:
\* one for every entry from the current one on that the selector names
RemainingCalls ==
    Cardinality({k \in run.i..Len(indices) : run.name \in {ALL, indices[k].alias}})

\* C35: every run of run_index over the catalog terminates: once in the loop
\* over the catalog (with as many calls left to explore as the rest of the
\* catalog needs) it eventually leaves the loop, and no call of
\* create_or_reindex makes more than two indexing attempts: the one with the
\* primary data and at most one with the backup.
C35_RunTerminates ==
    /\ [](InCall => loc.attempt <= 2 /\ NRetry <= 1)
    /\ (pc = "loop" /\ calls + RemainingCalls <= MaxCalls) ~>
            (pc \in {"loop", "done"} /\ loop_finished)

\* a forced run over the whole catalog fell back to a backup and ended
C35_Witness ==
    /\ pc = "done"
    /\ run.forced
    /\ run.name = ALL
    /\ \E k \in DOMAIN log : log[k].msg = "retry_with_backup"

\* C36: for every alias, also one that contains hyphens, and every integer
\* dataset timestamp, the timestamp the staleness check reads from the name
\* '{alias}-{8 hex}-{timestamp}' is the dataset's timestamp, so that the
\* decision is the comparison of the two datasets' timestamps.
C36_NameKeepsTimestamp ==
    nm.stage = "checked" =>
        /\ NameTimestamp(nm.new_index) = nm.timestamp
        /\ nm.has_old =>
              /\ NameTimestamp(nm.old_index) = nm.old_timestamp
              /\ nm.result = (nm.timestamp > nm.old_timestamp)

\* the same, for the timestamps that are not negative
C36_NameKeepsTimestampNonNegative ==
    (nm.stage = "checked" /\ nm.timestamp >= 0 /\ nm.old_timestamp >= 0) =>
        /\ NameTimestamp(nm.new_index) = nm.timestamp
        /\ nm.has_old =>
              /\ NameTimestamp(nm.old_index) = nm.old_timestamp
              /\ nm.result = (nm.timestamp > nm.old_timestamp)

\* the physical indices of `engine` that were created for `alias`: their
\* names are '{alias}-{8 hex}-{timestamp}'
IndicesOf(engine, alias) ==
    {n \in engine :
        /\ Len(n) > Len(alias) + 10
        /\ SubSeq(n, 1, Len(alias)) = alias
        /\ n[Len(alias) + 1] = "-"
        /\ \A i \in (Len(alias) + 2)..(Len(alias) + 9) : n[i] # "-"
        /\ n[Len(alias) + 10] = "-"}

\* at most one physical index exists for `alias`, and it is the one the alias
\* resolves to
OneIndex(engine, aliases, alias) ==
    /\ Cardinality(IndicesOf(engine, alias)) <= 1
    /\ IndicesOf(engine, alias) = AliasTargets(aliases, alias)

\* the current call was ended by an exception of an engine call
EngineCallRaised ==
    /\ pre.ended = "raised"
    /\ \E k \in CallLog : log[k].msg = "exception" /\ log[k].arg \in raise_points

\* how many entries `msg` the current call logged
Logged(msg) == Cardinality(Entries(CallLog, msg))

\* C37: starting from an engine without indices and as long as no engine
\* call raises, between the calls of create_or_reindex at most one physical
\* index exists for each logical index, and it is the aliased one: a call
\* that begins in such a state and is not ended by an engine exception ends
\* in such a state. Every call creates at most one index, updates the
\* aliases at most once and deletes at most one index.
C37_AtMostOneIndex ==
    /\ (faults = 0 /\ ~InCall) =>
          \A alias \in Aliases : OneIndex(es_indices, es_aliases, alias)
    /\ (/\ pre.ended \in {"returned", "raised"}
        /\ ~EngineCallRaised
        /\ \A alias \in Aliases : OneIndex(pre.es_indices, pre.es_aliases, alias)) =>
          /\ \A alias \in Aliases : OneIndex(es_indices, es_aliases, alias)
          /\ Cardinality(es_indices \ pre.es_indices) <= 1
          /\ Cardinality(pre.es_indices \ es_indices) <= 1
    /\ \A j, k \in {e \in CallLog : log[e].msg \in {"create_index", "update_aliases",
                                                     "delete_index"}} :
          log[j].msg = log[k].msg => j = k

\* no call has raised, and the last one replaced the index of its alias:
\* one index was created, one deleted, and one is left
C37_Witness ==
    /\ faults = 0
    /\ Succeeded
    /\ OldTargets # {}
    /\ Logged("create_index") = 1
    /\ Logged("delete_index") = 1
    /\ Cardinality(IndicesOf(es_indices, indices[pre.i].alias)) = 1

\* the current call loaded its documents into the candidate
LoadDone == Logged("summary") = 1

\* C38: the alias swap, the deletion of the old index and the backup write
\* do not depend on the error count of the bulk load: a call that loaded
\* its documents and returned, also when the engine rejected every one of
\* them, repointed the alias to the new index, deleted the index the alias
\* resolved to before, wrote the backup if it has one, and succeeded.
C38_LoadErrorsDoNotStop ==
    /\ (LoadDone /\ pre.ended = "returned") =>
          /\ loc.ok
          /\ loc.new_index \in es_indices
          /\ NowTargets = {loc.new_index}
          /\ OldTargets \cap es_indices = {}
          /\ BackupPath # NoPath =>
                /\ BackupWrites # {}
                /\ BackupPath \in DOMAIN backups
                /\ backups[BackupPath] = loc.data
    /\ (LoadDone /\ pc \in {"swap", "delete", "return"}) =>
          \E k \in CallLog :
              /\ log[k].msg = "summary"
              /\ log[k].arg[2] + log[k].arg[3] = log[k].arg[1]
              /\ log[k].arg[3] = Cardinality(Rejected)

\* the engine rejected every document of a call that replaced an index and
\* wrote its backup
C38_Witness ==
    /\ Succeeded
    /\ LoadDone
    /\ pre.oks # <<>>
    /\ Rejected = DOMAIN pre.oks
    /\ OldTargets # {}
    /\ BackupWrites # {}
    /\ NowTargets = {loc.new_index}

\* the entries of the log that begin a fetch of location L
Fetches(L) == {k \in DOMAIN log : log[k].msg \in {"read", "cached"} /\ log[k].arg = L}

\* the fetches of L that failed: the read or download was attempted and
\* nothing was returned
FailedFetches(L) ==
    {k \in Fetches(L) : k + 1 \in DOMAIN log /\ log[k + 1].msg = "unavailable"}

\* a step within one run of run_index
WithinRun == pc # "idle" /\ pc' # "idle"

\* the step is a fetch that failed
FetchFails ==
    /\ Len(log') > Len(log)
    /\ log'[Len(log')].msg = "unavailable"

\* the entries the step appends to the log
Appended == (Len(log) + 1)..Len(log')

\* C39: a fetch that fails leaves the cache unchanged, so that failures are
\* not memoized: a fetch is served from the cache only if the location is in
\* it and attempts the read or download otherwise, a location enters the
\* cache only with a fetch of it that succeeds, and an entry of the cache is
\* never modified or removed during the run. Hence every fetch of a location
\* that follows a failed one reads again, until one succeeds.
C39_FailuresNotMemoized ==
    [][WithinRun =>
          /\ \A L \in DOMAIN files_cache :
                L \in DOMAIN files_cache' /\ files_cache'[L] = files_cache[L]
          /\ FetchFails => files_cache' = files_cache
          /\ \A k \in Appended :
                /\ log'[k].msg = "cached" => log'[k].arg \in DOMAIN files_cache
                /\ log'[k].msg = "read" => log'[k].arg \notin DOMAIN files_cache
          /\ \A L \in DOMAIN files_cache' \ DOMAIN files_cache :
                /\ Truthy(files_cache'[L])
                /\ \E k \in Appended : log'[k].msg = "read" /\ log'[k].arg = L
                /\ ~FetchFails]_vars

\* a location whose fetch failed was read again later in the same run, that
\* time with success, and only then cached
C39_Witness ==
    \E L \in Locations :
        /\ L \in DOMAIN files_cache
        /\ \E k \in FailedFetches(L), j \in SuccessfulReads(L) : k < j

\* the backup file of catalog entry k exists exactly when its alias
\* resolves to an index, and that index was named with the backup's
\* timestamp
BackupMatchesAlias(k) ==
    LET path    == indices[k].backup_filepath
        targets == AliasTargets(es_aliases, indices[k].alias)
    IN  /\ path \in DOMAIN backups <=> targets # {}
        /\ path \in DOMAIN backups =>
              /\ backups[path].kind = "json"
              /\ \A n \in targets :
                    \E h \in DOMAIN HexPool :
                        n = IndexName(indices[k].alias, HexPool[h],
                                      backups[path].timestamp)

\* the files other than the backup of the current call's index are as they
\* were when the call began
OtherFilesKept ==
    /\ DOMAIN backups \ {BackupPath} = DOMAIN pre.backups \ {BackupPath}
    /\ \A path \in DOMAIN backups \ {BackupPath} : backups[path] = pre.backups[path]

\* C40: for an index with a backup location, starting from an empty engine
\* and no backup file and as long as no call raises, between the calls of
\* create_or_reindex the backup file exists if and only if the alias resolves
\* to an index, and the backup's timestamp is the one the aliased index was
\* named with. A call never writes the backup of another index, and a call
\* for an index without a backup location writes no file.
C40_BackupAliasConsistency ==
    /\ (faults = 0 /\ ~InCall) =>
          \A k \in DOMAIN indices :
              indices[k].backup_filepath # NoPath => BackupMatchesAlias(k)
    /\ pre.i \in DOMAIN indices =>
          /\ OtherFilesKept
          /\ BackupPath = NoPath => (backups = pre.backups /\ BackupWrites = {})

\* no call has raised; the index with a backup location is aliased and has
\* its backup, and a call for the index without a backup location has just
\* succeeded
C40_Witness ==
    /\ faults = 0
    /\ Succeeded
    /\ ~InCall
    /\ BackupPath = NoPath
    /\ \E k \in DOMAIN indices :
          /\ indices[k].backup_filepath \in DOMAIN backups
          /\ AliasTargets(es_aliases, indices[k].alias) # {}
====
